---- MODULE Spec2Model ----
(***************************************************************************)
(* A model of the S3 log extraction driver (S3LogAccessExtractor and its   *)
(* DANDI subclass), of the record files it keeps, of the mirror tree it    *)
(* appends to, and of the stop command.                                    *)
(*                                                                         *)
(* Disk state is shared by every process; an extractor object lives in one *)
(* process; pool workers are separate processes that receive a pickled     *)
(* copy of the extractor with every task.                                  *)
(***************************************************************************)
EXTENDS Integers, Sequences, FiniteSets, TLC

(***************************************************************************)
(* Bounds of the model.                                                    *)
(***************************************************************************)
MaxRuns == 2        \* extract_directory calls in one behaviour
MaxStopRuns == 1    \* extract_directory calls in a behaviour of SpecStop
MaxCrashes == 1     \* process kills in one behaviour
MaxTimeout == 2     \* largest timeout handed to the stop command
MaxPolls == 3       \* cap on the counted one-second sleeps of the stop command
MaxAppends == 6     \* lines appended to the record files in a behaviour of SpecAppend
MaxIndexRuns == 2   \* index_ips runs in one behaviour
MaxRemoteRuns == 2  \* extract_s3 calls in one behaviour
NumYears == 2       \* years the bucket can have logs for
MonthsPerYear == 2  \* 12 in the source, scaled down
DaysPerMonth == 2   \* calendar.monthrange(year, month)[1], scaled down
MaxFullIps == 2     \* lines of one full_ips.txt
high == 2           \* numpy.iinfo("uint64").max, scaled down: the draws are 0..high-1
max_redraws == 1    \* 1_000 in the source, scaled down

(***************************************************************************)
(* The input directory: three log files.  object_keys(f) lists, in source  *)
(* order, the object key of every line of f that passes the scanner's      *)
(* filter.  L1 has three matching lines, the first and the last of the     *)
(* same key, L2 one, L3 none.  A source record is the pair <<file, line    *)
(* index>>; every stream line is modelled by the source record it was      *)
(* taken from.                                                             *)
(***************************************************************************)
LogFiles == {"L1", "L2", "L3"}

Keys == {"a", "b"}

object_keys(f) ==
    CASE f = "L1" -> <<"a", "b", "a">>
      [] f = "L2" -> <<"a">>
      [] OTHER -> <<>>

RecordsOf(f) == [i \in 1..Len(object_keys(f)) |-> <<f, i>>]

KeyOf(r) == object_keys(r[1])[r[2]]

Modes == {"generic", "dandi"}

Pids == {"p0", "p1", "p2"}

NoLimit == 0

\* _handle_max_workers is applied to workers in -MaxWorkers..MaxWorkers on
\* machines of up to MaxCpuCount processors
MaxWorkers == 6

MaxCpuCount == 4

\* os.cpu_count() returns None when the count cannot be determined
UnknownCpuCount == 0

\* how many reset calls and commands are followed, among how many calls of
\* extract_directory
MaxResets == 2

MaxResetRuns == 1

\* _append_with_lock is called with retries in 1..MaxRetries
MaxRetries == 6

\* how many validate_file calls are followed
MaxValidateCalls == 2

Limits == {NoLimit, 1}

VARIABLES
    \* ---- disk: records directory
    mirror_copy_start_record,   \* lines of <Class>_mirror-copy-start.txt, as a set
    mirror_copy_end_record,     \* lines of <Class>_mirror-copy-end.txt, as a set
    extraction_record_file,     \* lines of <Class>_extraction.txt, as a set
    stop_file,                  \* records/stop_extraction exists
    \* ---- disk: extraction directory (the mirror tree)
    mirror_dirs,                \* object keys whose mirror directory exists
    mirror,                     \* mirror[k][s]: lines of stream s of key k
    extraction_stop_file,       \* extraction/stop_extraction exists
    \* ---- disk: tmp directory, restricted to the pids of live processes
    tmp_dirs,                   \* pids p for which tmp/<p>/ exists
    tmp_streams,                \* tmp_streams[p]: lines of the streams in tmp/<p>/
    \* ---- the extractor object and its extract_directory call
    mode,                       \* which extractor class the deployment uses
    phase,                      \* "none" | "ready" | "running"
    ctor_result,                \* outcome of the last constructor call
    extraction_record,          \* self.extraction_record of the parent's object
    files_to_extract,           \* files of the current call not yet begun
    max_workers,
    limit,                      \* the `limit` argument of the current call
    run_failed,                 \* an extract_file call of this run raised
    last_return,                \* how the last extract_directory call ended
    runs,
    crashes,
    interrupted,                \* some extract_file call was cut short so far
    began_extracted,            \* the call in progress began on an extracted directory
    \* ---- extract_file calls in progress, per process
    wpc, wfile, wpos,
    \* ---- the stop command
    stop_pc,
    max_timeout_in_seconds,
    time_so_far_in_seconds,
    stop_polls,
    stop_result,
    \* ---- the appends to the record files, seen at the level of open / write / close
    writer_pc,                  \* where each pool worker is in its two record appends
    record_lock,                \* record_lock[r]: the process holding the flock of r
    record_lines,               \* record_lines[r]: who appended the lines of r, in order
    \* ---- index_ips: the files it reads and writes
    full_ips_txt,               \* full_ips_txt[d]: lines of <d>/full_ips.txt (<<>>: no file)
    indexed_ips_txt,            \* indexed_ips_txt[d]: lines of <d>/indexed_ips.txt (<<>>: no file)
    full_ips_newer,             \* full_ips_newer[d]: full_ips.txt is newer than indexed_ips.txt
    indexed_ips_yaml,           \* the map kept in ips/indexed_ips.yaml
    \* ---- index_ips: the locals of the run in progress
    index_pc,
    index_result,               \* how the last index_ips run ended
    index_runs,
    index_loaded,               \* what load_index_to_ip returned to the latest run
    index_to_ip,
    ip_to_index,
    indexed_ips,
    batch_list,                 \* files of the batch not yet looked at
    full_ip_file_path,          \* the directory of the file being indexed
    ips_to_index,
    current_ip,                 \* the `ip` of the loop over ips_to_index
    new_index,
    redraw,
    \* ---- the index-to-IP cache file ips/indexed_ips.yaml, byte level
    password,                   \* the passphrase in the environment
    cache_file,                 \* [exists, of, written]: the first `written` bytes of `of`
    save_pc,
    save_content,               \* encrypted_content of the save in progress
    last_saved,                 \* the argument of the latest save_index_to_ip call
    last_saved_password,
    load_result,                \* [raised, value] of the latest load_index_to_ip call
    \* ---- RemoteS3LogAccessExtractor: the bucket and the record files
    nested_days,                \* the dates 1..nested_days have logs in the nested layout
    processed_dates_file,       \* the lines appended to processed_dates.yaml
    processed_months_file,      \* processed_months_per_year.yaml: year -> months
    processed_years_file,       \* processed_years.yaml: the years
    \* ---- the environment _handle_aws_credentials looks at
    aws_access_key_id,          \* AWS_ACCESS_KEY_ID is set
    aws_secret_access_key,      \* AWS_SECRET_ACCESS_KEY is set
    aws_credentials_file,       \* what ~/.aws/credentials is
    credentials_file_read,      \* the latest call opened the credentials file
    \* ---- the extract_s3 call in progress
    remote_pc,
    remote_result,
    remote_runs,
    manifest,                   \* the dates of the manifest ({}: no manifest)
    date_limit,
    listed,                     \* the call has run `s5cmd ls`
    processed_dates,
    processed_months_per_year,
    processed_years,
    unprocessed_months_per_year,
    date_to_download_type,
    dates_to_process,           \* what is left of it, the date in hand first
    downloaded,                 \* the dates whose download succeeded, in order
    extracted,                  \* the dates whose extraction succeeded, in order
    \* ---- one call of _handle_max_workers
    requested_workers,          \* the `workers` argument
    sys_platform,               \* sys.platform
    cpu_count,                  \* os.cpu_count(), UnknownCpuCount for None
    handle_pc,                  \* "start" | "done"
    handled,                    \* what the call returned or raised
    \* ---- the reset operations
    resets,                     \* how many reset calls and commands have run
    last_reset,                 \* which one ran last
    stale_tmp,                  \* pids of killed processes whose tmp/<p>/ is left
    \* ---- one call of _append_with_lock
    system,                     \* sys.platform
    retries,                    \* the `retries` argument
    lock_pc,                    \* "idle" | "attempt" | "done"
    attempt,                    \* the loop variable
    failed_attempts,            \* attempts that did not get the lock
    lock_acquired,              \* some attempt got the lock
    times_written,              \* how many times the content reached the file
    lock_result,                \* "returned" or the exception the call ended with
    \* ---- the validator (dandi_s3_log_parser/validation/_base_validator.py)
    validator_record_file,      \* lines of <checksum>.txt, without their "\n"
    validator_pc,               \* "none" | "ready"
    validator_record,           \* keys of self.record
    validate_calls,             \* how many validate_file calls have been made
    validated_file,             \* argument of the last validate_file call
    rule_raised,                \* the rule would raise on that file
    rule_runs                   \* files _run_validation was called on, in order

diskVars == <<mirror_copy_start_record, mirror_copy_end_record, extraction_record_file,
              stop_file, mirror_dirs, mirror, extraction_stop_file, tmp_dirs, tmp_streams>>

recordVars == <<mirror_copy_start_record, mirror_copy_end_record, extraction_record_file>>

objVars == <<mode, phase, ctor_result, extraction_record, files_to_extract, max_workers,
             limit, run_failed, last_return, runs, crashes, interrupted, began_extracted>>

workerVars == <<wpc, wfile, wpos>>

stopVars == <<stop_pc, max_timeout_in_seconds, time_so_far_in_seconds, stop_polls, stop_result>>

coreVars == <<diskVars, objVars, workerVars, stopVars>>

appendVars == <<writer_pc, record_lock, record_lines>>

\* the variables of the parts of the program that run apart from the extractor
indexFileVars == <<full_ips_txt, indexed_ips_txt, full_ips_newer, indexed_ips_yaml>>

indexRunVars == <<index_pc, index_result, index_runs, index_loaded, index_to_ip, ip_to_index,
                  indexed_ips,
                  batch_list, full_ip_file_path, ips_to_index, current_ip, new_index, redraw>>

indexVars == <<indexFileVars, indexRunVars>>

cacheVars == <<password, cache_file, save_pc, save_content, last_saved, last_saved_password,
               load_result>>

remoteFileVars == <<nested_days, processed_dates_file, processed_months_file,
                    processed_years_file>>

credentialVars == <<aws_access_key_id, aws_secret_access_key, aws_credentials_file>>

remoteRunVars == <<credentials_file_read, remote_pc, remote_result, remote_runs, manifest,
                   date_limit, listed, processed_dates, processed_months_per_year,
                   processed_years, unprocessed_months_per_year, date_to_download_type,
                   dates_to_process, downloaded, extracted>>

remoteVars == <<remoteFileVars, credentialVars, remoteRunVars>>

maxWorkersVars == <<requested_workers, sys_platform, cpu_count, handle_pc, handled>>

resetVars == <<resets, last_reset, stale_tmp>>

lockVars == <<system, retries, lock_pc, attempt, failed_attempts, lock_acquired,
              times_written, lock_result>>

validatorVars == <<validator_record_file, validator_pc, validator_record, validate_calls,
                   validated_file, rule_raised, rule_runs>>

notLockVars == <<coreVars, appendVars, indexVars, cacheVars, remoteVars, maxWorkersVars,
                 resetVars, validatorVars>>

notValidatorVars == <<coreVars, appendVars, indexVars, cacheVars, remoteVars, maxWorkersVars,
                      resetVars, lockVars>>

auxVars == <<appendVars, indexVars, cacheVars, remoteVars, maxWorkersVars, resetVars,
                   lockVars, validatorVars>>

notAppendVars == <<coreVars, indexVars, cacheVars, remoteVars, maxWorkersVars, resetVars,
                   lockVars, validatorVars>>

notIndexVars == <<coreVars, appendVars, cacheVars, remoteVars, maxWorkersVars, resetVars,
                   lockVars, validatorVars>>

notCacheVars == <<coreVars, appendVars, indexVars, remoteVars, maxWorkersVars, resetVars,
                   lockVars, validatorVars>>

notRemoteVars == <<coreVars, appendVars, indexVars, cacheVars, maxWorkersVars, resetVars,
                   lockVars, validatorVars>>

notMaxWorkersVars == <<coreVars, appendVars, indexVars, cacheVars, remoteVars, resetVars,
                   lockVars, validatorVars>>

notResetVars == <<appendVars, indexVars, cacheVars, remoteVars, maxWorkersVars,
                   lockVars, validatorVars>>

vars == <<coreVars, auxVars>>

(***************************************************************************)
(* Helpers on sequences.                                                   *)
(***************************************************************************)
Range(s) == {s[i] : i \in 1..Len(s)}

RECURSIVE Dedup(_)
\* the distinct elements of s in the order of their first occurrence
Dedup(s) ==
    IF s = <<>> THEN <<>>
    ELSE LET rest == Dedup(SubSeq(s, 1, Len(s) - 1))
             last == s[Len(s)]
         IN IF last \in Range(rest) THEN rest ELSE Append(rest, last)

KeySeq(recs) == [i \in 1..Len(recs) |-> KeyOf(recs[i])]

Occurrences(s, x) == Cardinality({i \in 1..Len(s) : s[i] = x})

EmptyMirror == [k \in Keys |-> [ts |-> <<>>, bs |-> <<>>, ip |-> <<>>]]

(***************************************************************************)
(* Path.exists() of a record file.  The code creates a record file only by *)
(* opening it in append mode and writing one line, so it exists exactly    *)
(* when it holds a line.                                                   *)
(***************************************************************************)
Exists(record) == record # {}

(***************************************************************************)
(* S3LogAccessExtractor.__init__: the corruption check.                    *)
(***************************************************************************)
initial_mirror_record_difference ==
    IF Exists(mirror_copy_start_record) /\ Exists(mirror_copy_end_record)
    THEN mirror_copy_start_record \ mirror_copy_end_record
    ELSE {}

Construct ==
    /\ phase \in {"none", "ready"}
    /\ IF Cardinality(initial_mirror_record_difference) > 0
       THEN /\ phase' = "none"
            /\ ctor_result' = "ValueError"
            /\ UNCHANGED extraction_record
       ELSE /\ phase' = "ready"
            /\ ctor_result' = "ok"
            /\ extraction_record' = extraction_record_file
    /\ UNCHANGED <<diskVars, workerVars, stopVars, mode, files_to_extract, max_workers,
                   limit, run_failed, last_return, runs, crashes, interrupted,
                   began_extracted>>
    /\ UNCHANGED auxVars

(***************************************************************************)
(* extract_directory: the files handed to extract_file.                    *)
(* all_log_files is a set, so the natural-sort order is lost and the       *)
(* `limit` slice keeps an arbitrary subset of that size.                   *)
(***************************************************************************)
unextracted_files == LogFiles \ extraction_record

Selections(lim) ==
    IF lim = NoLimit
    THEN {unextracted_files}
    ELSE {sel \in SUBSET unextracted_files :
            Cardinality(sel) = IF Cardinality(unextracted_files) < lim
                               THEN Cardinality(unextracted_files) ELSE lim}

FilesWithRecords == {f \in LogFiles : RecordsOf(f) # <<>>}

(***************************************************************************)
(* What the caller sees before a call: the previous call returned normally *)
(* and every log file with matching records is in the end record and in    *)
(* the extraction record file.                                             *)
(***************************************************************************)
DirectoryExtracted ==
    /\ last_return = "normal"
    /\ FilesWithRecords \subseteq mirror_copy_end_record
    /\ FilesWithRecords \subseteq extraction_record_file

Active(w) == IF max_workers = 1 THEN w = "p0" ELSE w \in {"p1", "p2"}

(***************************************************************************)
(* The two processes of the pool are interchangeable.  When both are idle  *)
(* and their temporary directories are in the same state, the task goes to *)
(* p1: giving it to p2 leads to the same states with the names swapped.    *)
(***************************************************************************)
SamePoolState ==
    /\ ("p1" \in tmp_dirs) = ("p2" \in tmp_dirs)
    /\ tmp_streams["p1"] = tmp_streams["p2"]

TakesTask(w) == w = "p2" /\ wpc["p1"] = "idle" => ~SamePoolState

extract_directory(lim, workers) ==
    /\ phase = "ready"
    /\ runs < MaxRuns
    /\ \E sel \in Selections(lim) : files_to_extract' = sel
    /\ limit' = lim
    /\ max_workers' = workers
    /\ phase' = "running"
    /\ run_failed' = FALSE
    /\ runs' = runs + 1
    /\ began_extracted' = DirectoryExtracted
    /\ UNCHANGED <<diskVars, workerVars, stopVars, mode, ctor_result, extraction_record,
                   last_return, crashes, interrupted>>
    /\ UNCHANGED auxVars

(***************************************************************************)
(* extract_file, step by step.  A step is one access to the shared file    *)
(* system; a process can be killed between any two steps.                  *)
(***************************************************************************)
\* a check of the stop file of the extraction directory in place of the records one
StopRequested_ExtractionDirectory == extraction_stop_file

\* self.stop_file_path.exists(): the sentinel in the records directory
StopRequested == stop_file

\* self.extraction_record.get(absolute_file_path, False) is True
AlreadyExtracted(f) == f \in extraction_record

NoFile == "L1"    \* the (unused) value of wfile[w] while w is idle

Return(w) ==
    /\ wpc' = [wpc EXCEPT ![w] = "idle"]
    /\ wfile' = [wfile EXCEPT ![w] = NoFile]

Raise(w) ==
    /\ Return(w)
    /\ run_failed' = TRUE

\* The call begins: the stop check and the record check.
ExtractFileBegin(w, f) ==
    /\ phase = "running"
    /\ Active(w)
    /\ wpc[w] = "idle"
    /\ f \in files_to_extract
    /\ TakesTask(w)
    /\ max_workers = 1 => ~run_failed
    /\ files_to_extract' = files_to_extract \ {f}
    /\ IF StopRequested \/ AlreadyExtracted(f)
       THEN UNCHANGED <<wpc, wfile>>
       ELSE /\ wpc' = [wpc EXCEPT ![w] = "mkdir"]
            /\ wfile' = [wfile EXCEPT ![w] = f]
    /\ UNCHANGED <<diskVars, stopVars, wpos, mode, phase, ctor_result, extraction_record,
                   max_workers, limit, run_failed, last_return, runs, crashes, interrupted,
                   began_extracted>>
    /\ UNCHANGED auxVars

\* self.temporary_directory.mkdir(exist_ok=True)
MakeTemporaryDirectory(w) ==
    /\ phase = "running"
    /\ wpc[w] = "mkdir"
    /\ tmp_dirs' = tmp_dirs \cup {w}
    /\ wpc' = [wpc EXCEPT ![w] = "scan"]
    /\ UNCHANGED <<recordVars, stop_file, mirror_dirs, mirror, extraction_stop_file,
                   tmp_streams, objVars, wfile, wpos, stopVars>>
    /\ UNCHANGED auxVars

(***************************************************************************)
(* The scanner (the AWK script run by _run_extraction) writes the streams  *)
(* of the matching lines into the temporary directory; a file with no      *)
(* matching line makes it write nothing, so that whatever the directory    *)
(* holds stays there.                                                      *)
(***************************************************************************)
ScannerOutput(f, old) == IF RecordsOf(f) # <<>> THEN RecordsOf(f) ELSE old

\* self.object_keys_file_path.exists()
ObjectKeysFileExists(streams) == streams # <<>>

\* a scanner failure met after the path was written to the start record
RunExtractionFails_AfterStart(w) ==
    /\ phase = "running"
    /\ wpc[w] = "scan"
    /\ Raise(w)
    /\ mirror_copy_start_record' = mirror_copy_start_record \cup {wfile[w]}
    /\ UNCHANGED <<mirror_copy_end_record, extraction_record_file, stop_file, mirror_dirs,
                   mirror, extraction_stop_file, tmp_dirs, tmp_streams, stopVars, wpos, mode,
                   phase, ctor_result, extraction_record, files_to_extract, max_workers,
                   limit, last_return, runs, crashes, interrupted, began_extracted>>
    /\ UNCHANGED auxVars

\* _run_extraction returns a non-zero code: RuntimeError
RunExtractionFails(w) ==
    /\ phase = "running"
    /\ wpc[w] = "scan"
    /\ Raise(w)
    /\ UNCHANGED <<diskVars, stopVars, wpos, mode, phase, ctor_result,
                   extraction_record, files_to_extract, max_workers, limit, last_return, runs,
                   crashes, interrupted, began_extracted>>
    /\ UNCHANGED auxVars

\* _run_extraction succeeds and there is no object_keys.txt: return
RunExtractionNoKeys(w) ==
    /\ phase = "running"
    /\ wpc[w] = "scan"
    /\ ~ObjectKeysFileExists(ScannerOutput(wfile[w], tmp_streams[w]))
    /\ Return(w)
    /\ UNCHANGED <<diskVars, objVars, stopVars, wpos>>
    /\ UNCHANGED auxVars

\* _run_extraction succeeds and object_keys.txt exists
RunExtractionKeys(w) ==
    /\ phase = "running"
    /\ wpc[w] = "scan"
    /\ ObjectKeysFileExists(ScannerOutput(wfile[w], tmp_streams[w]))
    /\ tmp_streams' = [tmp_streams EXCEPT ![w] = ScannerOutput(wfile[w], @)]
    /\ wpc' = [wpc EXCEPT ![w] = "start"]
    /\ UNCHANGED <<recordVars, stop_file, mirror_dirs, mirror, extraction_stop_file,
                   tmp_dirs, objVars, wfile, wpos, stopVars>>
    /\ UNCHANGED auxVars

\* extract_file going on to _mirror_copy without the append to the start record
RecordMirrorCopyStart_NoAppend(w) ==
    /\ phase = "running"
    /\ wpc[w] = "start"
    /\ wpc' = [wpc EXCEPT ![w] = "mirror_mkdir"]
    /\ UNCHANGED <<diskVars, objVars, wfile, wpos, stopVars>>
    /\ UNCHANGED auxVars

\* the append to the mirror-copy-start record
RecordMirrorCopyStart(w) ==
    /\ phase = "running"
    /\ wpc[w] = "start"
    /\ mirror_copy_start_record' = mirror_copy_start_record \cup {wfile[w]}
    /\ wpc' = [wpc EXCEPT ![w] = "mirror_mkdir"]
    /\ UNCHANGED <<mirror_copy_end_record, extraction_record_file, stop_file, mirror_dirs,
                   mirror, extraction_stop_file, tmp_dirs, tmp_streams, objVars, wfile,
                   wpos, stopVars>>
    /\ UNCHANGED auxVars

(***************************************************************************)
(* _mirror_copy.  The generic extractor makes one pass per stream          *)
(* (timestamps, then bytes_sent, then full_ips), each pass appending to    *)
(* the file of every key in turn.  The DANDI extractor handles one key at  *)
(* a time: it buffers the lines of the three files of the key and the      *)
(* buffers reach the disk when the files are closed, in the reverse of the *)
(* order of the `with` items.  One append to one file is one step.         *)
(***************************************************************************)
\* the pass over the ips writing into bytes_sent.txt
GenericOrder_IpsIntoBytesSent == <<"ts", "bs", "bs">>

GenericOrder == <<"ts", "bs", "ip">>

DandiOrder == <<"ip", "bs", "ts">>

MirrorOps(m, recs) ==
    LET keys == Dedup(KeySeq(recs))
        n == Len(keys)
    IN IF m = "generic"
       THEN [i \in 1..(3 * n) |-> <<GenericOrder[((i - 1) \div n) + 1], keys[((i - 1) % n) + 1]>>]
       ELSE [i \in 1..(3 * n) |-> <<DandiOrder[((i - 1) % 3) + 1], keys[((i - 1) \div 3) + 1]>>]

Reverse(seq) == [i \in 1..Len(seq) |-> seq[Len(seq) + 1 - i]]

\* the key's lines, last line first
BinnedData_LastFirst(recs, key) == Reverse(SelectSeq(recs, LAMBDA r : KeyOf(r) = key))

\* the lines one append adds to <key>/<stream>: the key's lines, in stream order
BinnedData(recs, key) == SelectSeq(recs, LAMBDA r : KeyOf(r) = key)

(***************************************************************************)
(* numpy.loadtxt squeezes a one-line file to a 0-d array, and iterating a  *)
(* 0-d array (the zip of _bin_and_save_extracted_data) raises TypeError.   *)
(* The DANDI extractor reads the streams with plain file iteration.        *)
(***************************************************************************)
ZipRaises(m, recs) == m = "generic" /\ Len(recs) = 1

\* mirror_directory.mkdir(parents=True, exist_ok=True) for every unique key
MirrorMakeDirectories(w) ==
    /\ phase = "running"
    /\ wpc[w] = "mirror_mkdir"
    /\ mirror_dirs' = mirror_dirs \cup Range(KeySeq(tmp_streams[w]))
    /\ wpc' = [wpc EXCEPT ![w] = "mirror"]
    /\ wpos' = [wpos EXCEPT ![w] = 1]
    /\ UNCHANGED <<recordVars, stop_file, mirror, extraction_stop_file, tmp_dirs,
                   tmp_streams, objVars, wfile, stopVars>>
    /\ UNCHANGED auxVars

MirrorAppend(w) ==
    /\ phase = "running"
    /\ wpc[w] = "mirror"
    /\ ~ZipRaises(mode, tmp_streams[w])
    /\ LET ops == MirrorOps(mode, tmp_streams[w])
           op == ops[wpos[w]]
       IN /\ mirror' = [mirror EXCEPT ![op[2]][op[1]] = @ \o BinnedData(tmp_streams[w], op[2])]
          /\ IF wpos[w] = Len(ops)
             THEN /\ wpc' = [wpc EXCEPT ![w] = "end"]
                  /\ wpos' = [wpos EXCEPT ![w] = 1]
             ELSE /\ wpos' = [wpos EXCEPT ![w] = @ + 1]
                  /\ UNCHANGED wpc
    /\ UNCHANGED <<recordVars, stop_file, mirror_dirs, extraction_stop_file, tmp_dirs,
                   tmp_streams, objVars, wfile, stopVars>>
    /\ UNCHANGED auxVars

MirrorCopyRaises(w) ==
    /\ phase = "running"
    /\ wpc[w] = "mirror"
    /\ ZipRaises(mode, tmp_streams[w])
    /\ Raise(w)
    /\ interrupted' = TRUE
    /\ UNCHANGED <<diskVars, stopVars, wpos, mode, phase, ctor_result,
                   extraction_record, files_to_extract, max_workers, limit, last_return, runs,
                   crashes, began_extracted>>
    /\ UNCHANGED auxVars

\* the append to the mirror-copy-end record
RecordMirrorCopyEnd(w) ==
    /\ phase = "running"
    /\ wpc[w] = "end"
    /\ mirror_copy_end_record' = mirror_copy_end_record \cup {wfile[w]}
    /\ wpc' = [wpc EXCEPT ![w] = "rmtree"]
    /\ UNCHANGED <<mirror_copy_start_record, extraction_record_file, stop_file, mirror_dirs,
                   mirror, extraction_stop_file, tmp_dirs, tmp_streams, objVars, wfile,
                   wpos, stopVars>>
    /\ UNCHANGED auxVars

\* shutil.rmtree(path=self.temporary_directory)
RemoveTemporaryDirectory(w) ==
    /\ phase = "running"
    /\ wpc[w] = "rmtree"
    /\ tmp_dirs' = tmp_dirs \ {w}
    /\ tmp_streams' = [tmp_streams EXCEPT ![w] = <<>>]
    /\ wpc' = [wpc EXCEPT ![w] = "record"]
    /\ UNCHANGED <<recordVars, stop_file, mirror_dirs, mirror, extraction_stop_file,
                   objVars, wfile, wpos, stopVars>>
    /\ UNCHANGED auxVars

(***************************************************************************)
(* self.extraction_record[path] = True and the append to the extraction    *)
(* record file.  With one worker `self` is the caller's object; a pool     *)
(* worker updates the copy of the object that was pickled with its task,   *)
(* which is lost when the task ends.                                       *)
(***************************************************************************)
RememberExtracted(f) == IF max_workers = 1 THEN extraction_record \cup {f} ELSE extraction_record

RecordExtraction(w) ==
    /\ phase = "running"
    /\ wpc[w] = "record"
    /\ extraction_record' = RememberExtracted(wfile[w])
    /\ extraction_record_file' = extraction_record_file \cup {wfile[w]}
    /\ Return(w)
    /\ UNCHANGED <<mirror_copy_start_record, mirror_copy_end_record, stop_file, mirror_dirs,
                   mirror, extraction_stop_file, tmp_dirs, tmp_streams, stopVars,
                   wpos, mode, phase, ctor_result, files_to_extract, max_workers,
                   limit, run_failed, last_return, runs, crashes, interrupted,
                   began_extracted>>
    /\ UNCHANGED auxVars

ExtractFileStep(w) ==
    \/ MakeTemporaryDirectory(w)
    \/ RunExtractionFails(w)
    \/ RunExtractionNoKeys(w)
    \/ RunExtractionKeys(w)
    \/ RecordMirrorCopyStart(w)
    \/ MirrorMakeDirectories(w)
    \/ MirrorAppend(w)
    \/ MirrorCopyRaises(w)
    \/ RecordMirrorCopyEnd(w)
    \/ RemoveTemporaryDirectory(w)
    \/ RecordExtraction(w)

(***************************************************************************)
(* extract_directory returns, or raises what an extract_file call raised.  *)
(* The processes of the pool end with the call.                            *)
(***************************************************************************)
AllIdle == \A w \in Pids : wpc[w] = "idle"

PoolPids == IF max_workers = 1 THEN {} ELSE {"p1", "p2"}

ExtractDirectoryEnds ==
    /\ phase = "running"
    /\ AllIdle
    /\ files_to_extract = {} \/ run_failed
    /\ phase' = "ready"
    /\ last_return' = IF run_failed THEN "raised" ELSE "normal"
    /\ files_to_extract' = {}
    /\ tmp_dirs' = tmp_dirs \ PoolPids
    /\ tmp_streams' = [p \in Pids |-> IF p \in PoolPids THEN <<>> ELSE tmp_streams[p]]
    /\ max_workers' = 1
    /\ limit' = NoLimit
    /\ run_failed' = FALSE
    /\ began_extracted' = FALSE
    /\ UNCHANGED <<recordVars, stop_file, mirror_dirs, mirror, extraction_stop_file,
                   workerVars, stopVars, mode, ctor_result, extraction_record,
                   runs, crashes, interrupted>>
    /\ UNCHANGED auxVars

(***************************************************************************)
(* The processes of the running call are killed (Ctrl+C, pkill, power      *)
(* loss).  The disk keeps what was written; the temporary directories of   *)
(* the dead pids are no longer the directory of any live process.          *)
(***************************************************************************)
PastStartRecord(w) == wpc[w] \in {"mirror_mkdir", "mirror", "end", "rmtree", "record"}

Crash ==
    /\ phase = "running"
    /\ crashes < MaxCrashes
    /\ crashes' = crashes + 1
    /\ phase' = "none"
    /\ last_return' = "killed"
    /\ interrupted' = (interrupted \/ \E w \in Pids : PastStartRecord(w))
    /\ files_to_extract' = {}
    /\ wpc' = [p \in Pids |-> "idle"]
    /\ wfile' = [p \in Pids |-> NoFile]
    /\ wpos' = [p \in Pids |-> 1]
    /\ tmp_dirs' = {}
    /\ tmp_streams' = [p \in Pids |-> <<>>]
    /\ max_workers' = 1
    /\ limit' = NoLimit
    /\ run_failed' = FALSE
    /\ began_extracted' = FALSE
    /\ UNCHANGED <<recordVars, stop_file, mirror_dirs, mirror, extraction_stop_file,
                   stopVars, mode, ctor_result, extraction_record, runs>>
    /\ UNCHANGED auxVars

(***************************************************************************)
(* The operator's way to interrupt, from the class docstring: "Create a    *)
(* file in the records cache called 'stop_extraction'".  Removing it again *)
(* is what lets a later call resume.                                       *)
(***************************************************************************)
\* the kill of Crash, keeping track of the directories it leaves in tmp/
CrashLeavesTmp ==
    /\ phase = "running"
    /\ crashes < MaxCrashes
    /\ crashes' = crashes + 1
    /\ phase' = "none"
    /\ last_return' = "killed"
    /\ interrupted' = (interrupted \/ \E w \in Pids : PastStartRecord(w))
    /\ files_to_extract' = {}
    /\ wpc' = [p \in Pids |-> "idle"]
    /\ wfile' = [p \in Pids |-> NoFile]
    /\ wpos' = [p \in Pids |-> 1]
    /\ stale_tmp' = stale_tmp \cup tmp_dirs
    /\ tmp_dirs' = {}
    /\ tmp_streams' = [p \in Pids |-> <<>>]
    /\ max_workers' = 1
    /\ limit' = NoLimit
    /\ run_failed' = FALSE
    /\ began_extracted' = FALSE
    /\ UNCHANGED <<recordVars, stop_file, mirror_dirs, mirror, extraction_stop_file,
                   stopVars, mode, ctor_result, extraction_record, runs>>
    /\ UNCHANGED <<resets, last_reset, notResetVars>>

(***************************************************************************)
(* The reset operations: the classmethod reset_cache of                    *)
(* extract/_s3_log_access_extractor.py and the reset group of the command  *)
(* line.                                                                   *)
(***************************************************************************)
\* lines 67-78: _get_cache_directories makes sure extraction/ and tmp/
\* exist, then both trees are removed (72-73) and the three record files of
\* the class are unlinked (74-76)
reset_cache ==
    /\ phase # "running"
    /\ resets < MaxResets
    /\ mirror_dirs' = {}
    /\ mirror' = EmptyMirror
    /\ extraction_stop_file' = FALSE
    /\ tmp_dirs' = {}
    /\ tmp_streams' = [p \in Pids |-> <<>>]
    /\ stale_tmp' = {}
    /\ extraction_record_file' = {}
    /\ mirror_copy_start_record' = {}
    /\ mirror_copy_end_record' = {}
    /\ resets' = resets + 1
    /\ last_reset' = "reset_cache"
    /\ UNCHANGED <<stop_file, objVars, workerVars, stopVars, notResetVars>>

\* _cli.py, the commands registered in the group `reset`, in source order
\* (lines 159, 165 and 185): the name each is registered under and the
\* function it calls
reset_commands ==
    << [name |-> "extraction", callback |-> "reset_extraction"],
       [name |-> "tmp", callback |-> "reset_tmp"],
       [name |-> "extraction", callback |-> "echo"] >>

\* click keeps one command per name, the one registered last
CommandNamed(name) ==
    LET places == {i \in DOMAIN reset_commands : reset_commands[i].name = name}
        last == CHOOSE i \in places : \A j \in places : j <= i
    IN  reset_commands[last].callback

\* config.reset_extraction: the mirror tree and the extractor's record files
reset_extraction ==
    /\ mirror_dirs' = {}
    /\ mirror' = EmptyMirror
    /\ extraction_stop_file' = FALSE
    /\ extraction_record_file' = {}
    /\ mirror_copy_start_record' = {}
    /\ mirror_copy_end_record' = {}
    /\ UNCHANGED <<tmp_dirs, tmp_streams, stale_tmp>>

\* config.reset_tmp: the tmp subtree
reset_tmp ==
    /\ tmp_dirs' = {}
    /\ tmp_streams' = [p \in Pids |-> <<>>]
    /\ stale_tmp' = {}
    /\ UNCHANGED <<recordVars, mirror_dirs, mirror, extraction_stop_file>>

\* `s3logextraction reset <name>`
ResetCli(name) ==
    /\ phase # "running"
    /\ resets < MaxResets
    /\ CASE CommandNamed(name) = "reset_extraction" -> reset_extraction
         [] CommandNamed(name) = "reset_tmp" -> reset_tmp
         [] OTHER -> UNCHANGED <<recordVars, mirror_dirs, mirror, extraction_stop_file,
                                 tmp_dirs, tmp_streams, stale_tmp>>
    /\ resets' = resets + 1
    /\ last_reset' = "reset " \o name
    /\ UNCHANGED <<stop_file, objVars, workerVars, stopVars, notResetVars>>

CreateStopFile ==
    /\ ~stop_file
    /\ stop_file' = TRUE
    /\ UNCHANGED <<recordVars, mirror_dirs, mirror, extraction_stop_file, tmp_dirs,
                   tmp_streams, objVars, workerVars, stopVars>>
    /\ UNCHANGED auxVars

RemoveStopFile ==
    /\ stop_file
    /\ stop_file' = FALSE
    /\ UNCHANGED <<recordVars, mirror_dirs, mirror, extraction_stop_file, tmp_dirs,
                   tmp_streams, objVars, workerVars, stopVars>>
    /\ UNCHANGED auxVars

(***************************************************************************)
(* The stop command.  get_running_pids lists the names in the tmp          *)
(* directory that are pids of live processes; it returns a set.            *)
(***************************************************************************)
get_running_pids == tmp_dirs

\* stop_extraction(): touches <extraction directory>/stop_extraction
stop_extraction ==
    /\ extraction_stop_file' = TRUE
    /\ UNCHANGED <<recordVars, stop_file, mirror_dirs, mirror, tmp_dirs, tmp_streams,
                   objVars, workerVars, stopVars>>
    /\ UNCHANGED auxVars

StopReturns(result) ==
    /\ stop_pc' = "done"
    /\ stop_result' = result

(***************************************************************************)
(* _stop_extraction_cli, up to the message before the touch.  With exactly *)
(* one running pid the message subscripts the set, which raises TypeError. *)
(***************************************************************************)
MinTimeout == 1    \* type=click.IntRange(min=1)

StopCliBegins(timeout) ==
    /\ stop_pc = "idle"
    /\ max_timeout_in_seconds' = timeout
    /\ IF Cardinality(get_running_pids) = 0
       THEN StopReturns("none running")
       ELSE IF Cardinality(get_running_pids) > 1
            THEN stop_pc' = "touch" /\ UNCHANGED stop_result
            ELSE StopReturns("TypeError")
    /\ UNCHANGED <<diskVars, objVars, workerVars, time_so_far_in_seconds, stop_polls>>
    /\ UNCHANGED auxVars

\* stop_file_path.touch() in the extraction directory; time_so_far_in_seconds = 0
StopCliTouches ==
    /\ stop_pc = "touch"
    /\ extraction_stop_file' = TRUE
    /\ time_so_far_in_seconds' = 0
    /\ stop_pc' = "poll"
    /\ UNCHANGED <<recordVars, stop_file, mirror_dirs, mirror, tmp_dirs, tmp_streams,
                   objVars, workerVars, max_timeout_in_seconds, stop_polls, stop_result>>
    /\ UNCHANGED auxVars

\* what one time.sleep(1) of the polling loop adds to time_so_far_in_seconds
SleepAdvance == 0

(***************************************************************************)
(* One evaluation of the loop condition and one pass through the loop      *)
(* body.  stop_polls counts the sleeps.                                    *)
(***************************************************************************)
StopCliPolls ==
    /\ stop_pc = "poll"
    /\ IF time_so_far_in_seconds < max_timeout_in_seconds
       THEN IF get_running_pids # {}
            THEN /\ stop_polls < MaxPolls
                 /\ stop_polls' = stop_polls + 1
                 /\ time_so_far_in_seconds' = time_so_far_in_seconds + SleepAdvance
                 /\ UNCHANGED <<stop_pc, stop_result, extraction_stop_file>>
            ELSE /\ StopReturns("stopped")
                 /\ extraction_stop_file' = FALSE
                 /\ UNCHANGED <<time_so_far_in_seconds, stop_polls>>
       ELSE /\ StopReturns("timed out")
            /\ UNCHANGED <<time_so_far_in_seconds, stop_polls, extraction_stop_file>>
    /\ UNCHANGED <<recordVars, stop_file, mirror_dirs, mirror, tmp_dirs, tmp_streams,
                   objVars, workerVars, max_timeout_in_seconds>>
    /\ UNCHANGED auxVars

(***************************************************************************)
(* The two record appends of extract_file, as the pool workers make them:  *)
(*     with <record file>.open(mode="a") as file_stream:                   *)
(*         file_stream.write(f"{absolute_file_path}\\n")                    *)
(* open() is one step; the write is buffered and reaches the file when the *)
(* `with` block closes it, which is the other step.  A worker appends to   *)
(* the start record, then to the end record, then goes to its next file.   *)
(* Nothing in extract_file takes the flock of a record file.               *)
(***************************************************************************)
Writers == {"p1", "p2"}

RecordFiles == {"start", "end"}

NoHolder == "none"

Appends == Len(record_lines["start"]) + Len(record_lines["end"])

\* the record file that a worker at writer_pc value pc has open, if any
OpenRecord(pc) ==
    CASE pc = "start_open" -> "start"
      [] pc = "end_open" -> "end"
      [] OTHER -> NoHolder

\* <record file>.open(mode="a")
RecordFileOpen(w) ==
    /\ writer_pc[w] \in {"start", "end"}
    /\ Appends + Cardinality({v \in Writers : OpenRecord(writer_pc[v]) # NoHolder}) < MaxAppends
    /\ writer_pc' = [writer_pc EXCEPT ![w] = IF @ = "start" THEN "start_open" ELSE "end_open"]
    /\ UNCHANGED <<record_lock, record_lines, notAppendVars>>

\* file_stream.write(...) and the close at the end of the `with` block
RecordFileWriteClose(w) ==
    /\ OpenRecord(writer_pc[w]) # NoHolder
    /\ record_lines' = [record_lines EXCEPT ![OpenRecord(writer_pc[w])] = Append(@, w)]
    /\ writer_pc' = [writer_pc EXCEPT ![w] = IF @ = "start_open" THEN "end" ELSE "start"]
    /\ UNCHANGED <<record_lock, notAppendVars>>

(***************************************************************************)
(* index_ips.  The mirror directories are the object keys; the IPs of the  *)
(* lines of full_ips.txt are drawn from Ips.  A dict is a function whose   *)
(* domain is its key set.  The extraction step between indexing runs is    *)
(* seen only as what it does to full_ips.txt: it appends a line, which     *)
(* makes the file newer than indexed_ips.txt.                              *)
(***************************************************************************)
Ips == {"ip1", "ip2"}

Indexes == 0..(high - 1)

EmptyMap == <<>>

\* a full_ips.txt or indexed_ips.txt that exists has at least one line
NoFileYet == <<>>

IndexIdleLocals ==
    /\ index_to_ip' = EmptyMap
    /\ ip_to_index' = EmptyMap
    /\ indexed_ips' = {}
    /\ batch_list' = {}
    /\ full_ip_file_path' = "a"
    /\ ips_to_index' = {}
    /\ current_ip' = "ip1"
    /\ new_index' = 0
    /\ redraw' = 0

\* a later extraction appends a line to <d>/full_ips.txt
ExtractionAppendsIp(d, ip) ==
    /\ index_pc = "idle"
    /\ Len(full_ips_txt[d]) < MaxFullIps
    /\ full_ips_txt' = [full_ips_txt EXCEPT ![d] = Append(@, ip)]
    /\ full_ips_newer' = [full_ips_newer EXCEPT ![d] = TRUE]
    /\ UNCHANGED <<indexed_ips_txt, indexed_ips_yaml, indexRunVars, notIndexVars>>

\* a load that finds nothing although the file has content
load_index_to_ip_Nothing == EmptyMap

\* load_index_to_ip: the content of ips/indexed_ips.yaml, {} when there is none
load_index_to_ip == indexed_ips_yaml

\* {ip: index for index, ip in index_to_ip.items()}
Inverse(map) ==
    [ip \in {map[i] : i \in DOMAIN map} |-> CHOOSE i \in DOMAIN map : map[i] = ip]

\* lines 39-64: the locals, the maps, and the one batch of full_ips.txt files
IndexRunBegins ==
    /\ index_pc = "idle"
    /\ index_runs < MaxIndexRuns
    /\ index_runs' = index_runs + 1
    /\ index_loaded' = load_index_to_ip
    /\ index_to_ip' = load_index_to_ip
    /\ ip_to_index' = Inverse(load_index_to_ip)
    /\ indexed_ips' = {load_index_to_ip[i] : i \in DOMAIN load_index_to_ip}
    /\ batch_list' = {d \in Keys : full_ips_txt[d] # NoFileYet}
    /\ index_pc' = IF \E d \in Keys : full_ips_txt[d] # NoFileYet THEN "files" ELSE "idle"
    /\ index_result' = IF \E d \in Keys : full_ips_txt[d] # NoFileYet THEN "running" ELSE "ok"
    /\ UNCHANGED <<indexFileVars, full_ip_file_path, ips_to_index, current_ip, new_index,
                   redraw, notIndexVars>>

\* lines 69-70: the file has no indexed_ips.txt or is newer than it
NeedsIndexing(d) == indexed_ips_txt[d] = NoFileYet \/ full_ips_newer[d]

\* lines 65-80: the next file of the shuffled batch
IndexFileBegins(d) ==
    /\ index_pc = "files"
    /\ d \in batch_list
    /\ batch_list' = batch_list \ {d}
    /\ IF NeedsIndexing(d)
       THEN /\ full_ip_file_path' = d
            /\ ips_to_index' = Range(full_ips_txt[d]) \ indexed_ips
            /\ index_pc' = "ips"
       ELSE UNCHANGED <<full_ip_file_path, ips_to_index, index_pc>>
    /\ UNCHANGED <<indexFileVars, index_result, index_runs, index_loaded, index_to_ip, ip_to_index,
                   indexed_ips, current_ip, new_index, redraw, notIndexVars>>

\* index_to_ip.get(new_index, None) is not None
Collides(n) == n \in DOMAIN index_to_ip

\* lines 82-85: the first draw for the next ip
IndexDraws(ip, n) ==
    /\ index_pc = "ips"
    /\ ip \in ips_to_index
    /\ current_ip' = ip
    /\ new_index' = n
    /\ redraw' = 0
    /\ index_pc' = "while"
    /\ UNCHANGED <<indexFileVars, index_result, index_runs, index_loaded, index_to_ip, ip_to_index,
                   indexed_ips, batch_list, full_ip_file_path, ips_to_index, notIndexVars>>

\* lines 86-88: one pass through the body of the while loop
IndexRedraws(n) ==
    /\ index_pc = "while"
    /\ Collides(new_index) /\ redraw < max_redraws
    /\ new_index' = n
    /\ redraw' = redraw + 1
    /\ UNCHANGED <<indexFileVars, index_pc, index_result, index_runs, index_loaded, index_to_ip,
                   ip_to_index, indexed_ips, batch_list, full_ip_file_path, ips_to_index,
                   current_ip, notIndexVars>>

\* lines 90-95: the while loop has ended and redraw >= max_redraws
IndexRaises ==
    /\ index_pc = "while"
    /\ ~(Collides(new_index) /\ redraw < max_redraws)
    /\ redraw >= max_redraws
    /\ index_pc' = "idle"
    /\ index_result' = "ValueError"
    /\ IndexIdleLocals
    /\ UNCHANGED <<indexFileVars, index_runs, index_loaded, notIndexVars>>

\* lines 97-99: the while loop has ended and redraw < max_redraws
IndexAssigns ==
    /\ index_pc = "while"
    /\ ~(Collides(new_index) /\ redraw < max_redraws)
    /\ ~(redraw >= max_redraws)
    /\ index_to_ip' = (new_index :> current_ip) @@ index_to_ip
    /\ ip_to_index' = (current_ip :> new_index) @@ ip_to_index
    /\ indexed_ips' = indexed_ips \cup DOMAIN ip_to_index'
    /\ ips_to_index' = ips_to_index \ {current_ip}
    /\ index_pc' = "ips"
    /\ UNCHANGED <<indexFileVars, index_result, index_runs, index_loaded, batch_list, full_ip_file_path,
                   current_ip, new_index, redraw, notIndexVars>>

\* lines 101-104: indexed_ips.txt of the file is written
IndexWritesFile ==
    /\ index_pc = "ips"
    /\ ips_to_index = {}
    /\ indexed_ips_txt' = [indexed_ips_txt EXCEPT ![full_ip_file_path] =
                              [j \in 1..Len(full_ips_txt[full_ip_file_path]) |->
                                  ip_to_index[full_ips_txt[full_ip_file_path][j]]]]
    /\ full_ips_newer' = [full_ips_newer EXCEPT ![full_ip_file_path] = FALSE]
    /\ index_pc' = "files"
    /\ UNCHANGED <<full_ips_txt, indexed_ips_yaml, index_result, index_runs, index_loaded, index_to_ip,
                   ip_to_index, indexed_ips, batch_list, full_ip_file_path, ips_to_index,
                   current_ip, new_index, redraw, notIndexVars>>

\* save_index_to_ip: the map replaces the content of ips/indexed_ips.yaml
save_index_to_ip(map) == indexed_ips_yaml' = map

\* line 106, and the return that follows the one batch
IndexSaves ==
    /\ index_pc = "files"
    /\ batch_list = {}
    /\ save_index_to_ip(index_to_ip)
    /\ index_pc' = "idle"
    /\ index_result' = "ok"
    /\ IndexIdleLocals
    /\ UNCHANGED <<full_ips_txt, indexed_ips_txt, full_ips_newer, index_runs, index_loaded, notIndexVars>>

(***************************************************************************)
(* load_index_to_ip and save_index_to_ip at the level of the bytes of      *)
(* ips/indexed_ips.yaml.  A YAML text is the sequence of its lines, a line *)
(* being <<index, ip>>; the text of the empty dict is the one line "{}".   *)
(* encrypt_bytes and decrypt_bytes stand for password-based authenticated  *)
(* encryption: a ciphertext carries its plaintext and the passphrase it    *)
(* was made with, is one unit (salt and tag) longer than the plaintext,    *)
(* and decrypts only when it is complete and the passphrase is the same.   *)
(***************************************************************************)
Passwords == {"pw1", "pw2"}

Maps == UNION {[S -> Ips] : S \in SUBSET Indexes}

EmptyFlowMapping == <<0, "{}">>

RECURSIVE SortedItems(_, _)
SortedItems(map, keys) ==
    IF keys = {} THEN <<>>
    ELSE LET k == CHOOSE x \in keys : \A y \in keys : x <= y
         IN  <<<<k, map[k]>>>> \o SortedItems(map, keys \ {k})

\* yaml.dump(data=index_to_ip)
yaml_dump(map) ==
    IF DOMAIN map = {} THEN <<EmptyFlowMapping>> ELSE SortedItems(map, DOMAIN map)

\* yaml.safe_load(stream=...): None for an empty stream
yaml_safe_load(text) ==
    IF text = <<>> THEN [none |-> TRUE, value |-> EmptyMap]
    ELSE IF text = <<EmptyFlowMapping>> THEN [none |-> FALSE, value |-> EmptyMap]
    ELSE [none |-> FALSE,
          value |-> [k \in {text[j][1] : j \in 1..Len(text)} |->
                        LET j == CHOOSE x \in 1..Len(text) :
                                     /\ text[x][1] = k
                                     /\ \A y \in 1..Len(text) : text[y][1] = k => y <= x
                        IN  text[j][2]]]

encrypt_bytes(data, pw) == [plain |-> data, key |-> pw]

Size(content) == Len(content.plain) + 1

\* the bytes of a file are a prefix of a ciphertext
NoCacheFile == [exists |-> FALSE, of |-> encrypt_bytes(<<>>, "pw1"), written |-> 0]

Complete(bytes) == bytes.written = Size(bytes.of)

\* decrypt_bytes: [raised, data]
decrypt_bytes(bytes, pw) ==
    IF Complete(bytes) /\ bytes.of.key = pw
    THEN [raised |-> FALSE, data |-> bytes.of.plain]
    ELSE [raised |-> TRUE, data |-> <<>>]

\* the passphrase of the environment is changed between calls
SetPassword(pw) ==
    /\ save_pc = "idle"
    /\ pw # password
    /\ password' = pw
    /\ UNCHANGED <<cache_file, save_pc, save_content, last_saved, last_saved_password,
                   load_result, notCacheVars>>

\* save_index_to_ip, lines 42-47: the content to write
SaveBegins(map) ==
    /\ save_pc = "idle"
    /\ save_content' = encrypt_bytes(yaml_dump(map), password)
    /\ last_saved' = map
    /\ last_saved_password' = password
    /\ save_pc' = "open"
    /\ UNCHANGED <<password, cache_file, load_result, notCacheVars>>

\* save_index_to_ip, line 49: open(mode="wb") creates or truncates the file
SaveOpens ==
    /\ save_pc = "open"
    /\ cache_file' = [exists |-> TRUE, of |-> save_content, written |-> 0]
    /\ save_pc' = "write"
    /\ UNCHANGED <<password, save_content, last_saved, last_saved_password, load_result,
                   notCacheVars>>

\* save_index_to_ip, line 50: more bytes of the content reach the file
SaveWrites(n) ==
    /\ save_pc = "write"
    /\ cache_file.written < n /\ n <= Size(save_content)
    /\ cache_file' = [cache_file EXCEPT !.written = n]
    /\ save_pc' = IF n = Size(save_content) THEN "idle" ELSE "write"
    /\ UNCHANGED <<password, save_content, last_saved, last_saved_password, load_result,
                   notCacheVars>>

\* load_index_to_ip, lines 17-19: no file, so one is touched and {} returned
LoadTouches ==
    /\ ~cache_file.exists
    /\ cache_file' = [cache_file EXCEPT !.exists = TRUE, !.written = 0]
    /\ load_result' = [raised |-> FALSE, value |-> EmptyMap]
    /\ UNCHANGED <<password, save_pc, save_content, last_saved, last_saved_password,
                   notCacheVars>>

\* load_index_to_ip, lines 21-30: read, decrypt, parse
LoadReads ==
    /\ cache_file.exists
    /\ LET decrypted_content == decrypt_bytes(cache_file, password)
           loaded == yaml_safe_load(decrypted_content.data)
       IN  load_result' =
              IF decrypted_content.raised THEN [raised |-> TRUE, value |-> EmptyMap]
              ELSE IF loaded.none \/ DOMAIN loaded.value = {}
                   THEN [raised |-> FALSE, value |-> EmptyMap]
                   ELSE [raised |-> FALSE, value |-> loaded.value]
    /\ UNCHANGED <<password, cache_file, save_pc, save_content, last_saved,
                   last_saved_password, notCacheVars>>

(***************************************************************************)
(* RemoteS3LogAccessExtractor.extract_s3.  A date is its number in the     *)
(* calendar, 1..NumDates, so that the order of the date strings is the     *)
(* order of the numbers; every month has DaysPerMonth days.  The bucket    *)
(* has nested logs for the dates 1..nested_days.  Each call is made on a   *)
(* new object, whose __init__ reads the three record files.                *)
(***************************************************************************)
NumDates == NumYears * MonthsPerYear * DaysPerMonth

Dates == 1..NumDates

YearOf(d) == ((d - 1) \div (MonthsPerYear * DaysPerMonth)) + 1

MonthOf(d) == (((d - 1) \div DaysPerMonth) % MonthsPerYear) + 1

DatesOf(year, month) == {d \in Dates : YearOf(d) = year /\ MonthOf(d) = month}

\* calendar.monthrange(int(year), int(month))[1]
total_days_this_month(year, month) == DaysPerMonth

CredentialFiles == {"absent", "empty", "one profile", "many profiles"}

\* _handle_aws_credentials: how the call ends and whether it read the file
handle_aws_credentials ==
    IF ~aws_access_key_id \/ (~aws_secret_access_key /\ aws_credentials_file # "absent")
    THEN CASE aws_credentials_file = "absent" ->
                [result |-> "FileNotFoundError", read |-> FALSE]
           [] aws_credentials_file = "many profiles" ->
                [result |-> "ValueError", read |-> TRUE]
           [] aws_credentials_file = "empty" ->
                [result |-> "StopIteration", read |-> TRUE]
           [] OTHER -> [result |-> "ok", read |-> TRUE]
    ELSE IF ~aws_access_key_id \/ ~aws_secret_access_key
         THEN [result |-> "ValueError", read |-> FALSE]
         ELSE [result |-> "ok", read |-> FALSE]

\* the environment of the next call
SetCredentials(key_id, secret, file) ==
    /\ remote_pc = "idle"
    /\ <<key_id, secret, file>> # <<aws_access_key_id, aws_secret_access_key, aws_credentials_file>>
    /\ aws_access_key_id' = key_id
    /\ aws_secret_access_key' = secret
    /\ aws_credentials_file' = file
    /\ UNCHANGED <<remoteFileVars, remoteRunVars, notRemoteVars>>

\* the bucket receives the logs of one more day
NewDayOfLogs ==
    /\ remote_pc = "idle"
    /\ nested_days < NumDates
    /\ nested_days' = nested_days + 1
    /\ UNCHANGED <<processed_dates_file, processed_months_file, processed_years_file,
                   credentialVars, remoteRunVars, notRemoteVars>>

NestedDates == 1..nested_days

KeysOf(map, key) == IF key \in DOMAIN map THEN map[key] ELSE {}

\* lines 93-96: the years to look into
unprocessed_years(mf) ==
    {YearOf(d) : d \in NestedDates \cup mf} \ processed_years_file

\* lines 108-110: `s5cmd ls` of a year with nothing under it fails and the year is skipped
ListedYears(mf) == {y \in unprocessed_years(mf) : \E d \in NestedDates : YearOf(d) = y}

\* lines 112-117
UnprocessedMonths(mf, y) ==
    {MonthOf(d) : d \in {x \in NestedDates \cup mf : YearOf(x) = y}}
        \ KeysOf(processed_months_file, y)

\* lines 120-122: `s5cmd ls` of a month with nothing under it fails and the month is skipped
ListedMonths(mf, y) ==
    {m \in UnprocessedMonths(mf, y) : NestedDates \cap DatesOf(y, m) # {}}

\* lines 124-129, over all years and months
new_dates(mf) ==
    UNION {UNION {((NestedDates \cup mf) \cap DatesOf(y, m)) \ Range(processed_dates_file)
                  : m \in ListedMonths(mf, y)} : y \in ListedYears(mf)}

\* dates_with_logs (lines 87 and 131): the manifest's dates, extended by the new
\* dates of each month
Copies_dates_with_logs(mf, new, d) ==
    (IF d \in mf THEN 1 ELSE 0) + (IF d \in new THEN 1 ELSE 0)

RECURSIVE Repeat(_, _)
Repeat(d, n) == IF n = 0 THEN <<>> ELSE <<d>> \o Repeat(d, n - 1)

RECURSIVE SortedFrom(_, _, _)
SortedFrom(mf, new, d) ==
    IF d > NumDates THEN <<>>
    ELSE Repeat(d, Copies_dates_with_logs(mf, new, d)) \o SortedFrom(mf, new, d + 1)

\* line 134
sorted_dates_with_logs(mf) == LET new == new_dates(mf) IN SortedFrom(mf, new, 1)

\* a buffer of one day
AllButLastTwo_DropsOne(a_list) ==
    IF Len(a_list) <= 1 THEN <<>> ELSE SubSeq(a_list, 1, Len(a_list) - 1)

\* line 135: a_list[:-2]
AllButLastTwo(a_list) ==
    IF Len(a_list) <= 2 THEN <<>> ELSE SubSeq(a_list, 1, Len(a_list) - 2)

unprocessed_dates(mf) == LET sorted == sorted_dates_with_logs(mf) IN AllButLastTwo(sorted)

Min(a, b) == IF a <= b THEN a ELSE b

\* line 136
DatesToProcess(mf, lim) ==
    LET unprocessed == unprocessed_dates(mf)
    IN  IF lim = NoLimit THEN unprocessed
        ELSE SubSeq(unprocessed, 1, Min(lim, Len(unprocessed)))

RemoteIdleLocals ==
    /\ processed_dates' = {}
    /\ processed_months_per_year' = EmptyMap
    /\ processed_years' = {}
    /\ unprocessed_months_per_year' = EmptyMap
    /\ date_to_download_type' = EmptyMap
    /\ dates_to_process' = <<>>

\* __init__ and extract_s3 up to line 136; ls_ok: the `s5cmd ls` of line 90 succeeds
RemoteRunBegins(mf, lim, ls_ok) ==
    /\ remote_pc = "idle"
    /\ remote_runs < MaxRemoteRuns
    /\ remote_runs' = remote_runs + 1
    /\ manifest' = mf
    /\ date_limit' = lim
    /\ downloaded' = <<>>
    /\ extracted' = <<>>
    /\ credentials_file_read' = handle_aws_credentials.read
    /\ IF handle_aws_credentials.result # "ok"
       THEN /\ remote_result' = handle_aws_credentials.result
            /\ listed' = FALSE
            /\ RemoteIdleLocals
            /\ UNCHANGED remote_pc
       ELSE IF ~ls_ok
       THEN /\ remote_result' = "RuntimeError"
            /\ listed' = TRUE
            /\ RemoteIdleLocals
            /\ UNCHANGED remote_pc
       ELSE /\ remote_result' = "running"
            /\ listed' = TRUE
            /\ processed_dates' = Range(processed_dates_file)
            /\ processed_months_per_year' = processed_months_file
            /\ processed_years' = processed_years_file
            /\ unprocessed_months_per_year' =
                  [y \in ListedYears(mf) |-> UnprocessedMonths(mf, y)]
            /\ LET new == new_dates(mf)
                   todo == DatesToProcess(mf, lim)
               IN  /\ date_to_download_type' =
                         [d \in mf \cup new |-> IF d \in new THEN "cp" ELSE "run"]
                   /\ dates_to_process' = todo
                   /\ remote_pc' = IF todo = <<>> THEN "update" ELSE "download"
    /\ UNCHANGED <<remoteFileVars, credentialVars, notRemoteVars>>

\* a failed subprocess that is passed over
RemoteRaises_PassedOver ==
    /\ remote_pc' = "record"
    /\ UNCHANGED <<remote_result, processed_dates, processed_months_per_year, processed_years,
                   unprocessed_months_per_year, date_to_download_type, dates_to_process>>

\* _deploy_subprocess raises RuntimeError, which ends extract_s3
RemoteRaises ==
    /\ remote_pc' = "idle"
    /\ remote_result' = "RuntimeError"
    /\ RemoteIdleLocals

\* lines 148-171: the date's logs are downloaded
RemoteDownloads(ok) ==
    /\ remote_pc = "download"
    /\ IF ok
       THEN /\ downloaded' = Append(downloaded, Head(dates_to_process))
            /\ remote_pc' = "extract"
            /\ UNCHANGED <<remote_result, processed_dates, processed_months_per_year,
                           processed_years, unprocessed_months_per_year,
                           date_to_download_type, dates_to_process>>
       ELSE RemoteRaises /\ UNCHANGED downloaded
    /\ UNCHANGED <<remoteFileVars, credentialVars, credentials_file_read, remote_runs,
                   manifest, date_limit, listed, extracted, notRemoteVars>>

\* lines 173-182: the extraction command is run on the date's directory
RemoteExtracts(ok) ==
    /\ remote_pc = "extract"
    /\ IF ok
       THEN /\ extracted' = Append(extracted, Head(dates_to_process))
            /\ remote_pc' = "record"
            /\ UNCHANGED <<remote_result, processed_dates, processed_months_per_year,
                           processed_years, unprocessed_months_per_year,
                           date_to_download_type, dates_to_process>>
       ELSE RemoteRaises /\ UNCHANGED extracted
    /\ UNCHANGED <<remoteFileVars, credentialVars, credentials_file_read, remote_runs,
                   manifest, date_limit, listed, downloaded, notRemoteVars>>

\* lines 184-188: the date is recorded and its directory removed
RemoteRecordsDate ==
    /\ remote_pc = "record"
    /\ processed_dates' = processed_dates \cup {Head(dates_to_process)}
    /\ processed_dates_file' = Append(processed_dates_file, Head(dates_to_process))
    /\ dates_to_process' = Tail(dates_to_process)
    /\ remote_pc' = IF Tail(dates_to_process) = <<>> THEN "update" ELSE "download"
    /\ UNCHANGED <<nested_days, processed_months_file, processed_years_file, credentialVars,
                   credentials_file_read, remote_result, remote_runs, manifest, date_limit,
                   listed, processed_months_per_year, processed_years,
                   unprocessed_months_per_year, date_to_download_type, downloaded, extracted,
                   notRemoteVars>>

\* a month counted as complete from its first processed day
MonthComplete_AnyDay(year, month) ==
    Cardinality(processed_dates \cap DatesOf(year, month)) >= 1

\* lines 194-200: the month has all its days processed
MonthComplete(year, month) ==
    Cardinality(processed_dates \cap DatesOf(year, month)) = total_days_this_month(year, month)

\* line 201: processed_months_per_year[year][month] = True needs the year to be a key
MonthsToMark(year) == {m \in unprocessed_months_per_year[year] : MonthComplete(year, m)}

MarkedMonths ==
    [y \in DOMAIN processed_months_per_year |->
        processed_months_per_year[y] \cup
            (IF y \in DOMAIN unprocessed_months_per_year THEN MonthsToMark(y) ELSE {})]

\* lines 203-204
MarkedYears ==
    processed_years \cup
        {y \in DOMAIN unprocessed_months_per_year :
            Cardinality(KeysOf(MarkedMonths, y)) = MonthsPerYear}

\* lines 191-209: the records of months and years are brought up to date and written
RemoteUpdatesRecords ==
    /\ remote_pc = "update"
    /\ IF \E y \in DOMAIN unprocessed_months_per_year :
              MonthsToMark(y) # {} /\ y \notin DOMAIN processed_months_per_year
       THEN /\ remote_result' = "KeyError"
            /\ UNCHANGED <<processed_months_file, processed_years_file>>
       ELSE /\ remote_result' = "ok"
            /\ processed_months_file' = MarkedMonths
            /\ processed_years_file' = MarkedYears
    /\ remote_pc' = "idle"
    /\ RemoteIdleLocals
    /\ UNCHANGED <<nested_days, processed_dates_file, credentialVars, credentials_file_read,
                   remote_runs, manifest, date_limit, listed, downloaded, extracted,
                   notRemoteVars>>

(***************************************************************************)
(* _handle_max_workers (extractors/_utils.py, lines 81-107).               *)
(***************************************************************************)
Platforms == {"linux", "win32"}

CpuCounts == {UnknownCpuCount} \cup (1..MaxCpuCount)

NotHandled == [raised |-> "none", max_workers |-> 0, warnings |-> 0]

\* lines 99-107 with the modulus left out of the negative branch
handle_max_workers_NoModulus(workers, platform, cpus) ==
    LET zero == workers = 0
        w1 == IF zero THEN -2 ELSE workers
        forced == w1 # 1 /\ platform = "win32"
        w2 == IF forced THEN 1 ELSE w1
        warned == (IF zero THEN 1 ELSE 0) + (IF forced THEN 1 ELSE 0)
    IN  IF cpus = UnknownCpuCount
        THEN [raised |-> "TypeError", max_workers |-> 0, warnings |-> warned]
        ELSE [raised |-> "none",
              max_workers |-> IF w2 < 0 THEN w2 + 1
                              ELSE IF w2 > cpus THEN cpus ELSE w2,
              warnings |-> warned]

\* lines 89-107: 0 becomes -2 with a warning (89-92), Windows forces 1 with
\* a warning (94-97), then a negative count wraps around the processor count
\* and a positive one is capped by it (99-105); with os.cpu_count() None
\* both `workers % cpu_count` and `workers > cpu_count` raise TypeError
handle_max_workers(workers, platform, cpus) ==
    LET zero == workers = 0
        w1 == IF zero THEN -2 ELSE workers
        forced == w1 # 1 /\ platform = "win32"
        w2 == IF forced THEN 1 ELSE w1
        warned == (IF zero THEN 1 ELSE 0) + (IF forced THEN 1 ELSE 0)
    IN  IF cpus = UnknownCpuCount
        THEN [raised |-> "TypeError", max_workers |-> 0, warnings |-> warned]
        ELSE [raised |-> "none",
              max_workers |-> IF w2 < 0 THEN (w2 % cpus) + 1
                              ELSE IF w2 > cpus THEN cpus ELSE w2,
              warnings |-> warned]

HandleMaxWorkers ==
    /\ handle_pc = "start"
    /\ handled' = handle_max_workers(requested_workers, sys_platform, cpu_count)
    /\ handle_pc' = "done"
    /\ UNCHANGED <<requested_workers, sys_platform, cpu_count, notMaxWorkersVars>>

(***************************************************************************)
(* _append_with_lock (extractors/_utils.py, lines 40-78).  One attempt of  *)
(* the loop is one step; `acquired` says whether the locking call of the   *)
(* attempt succeeds.                                                       *)
(***************************************************************************)
\* line 40: the call, with a `retries` argument of at least 1
AppendWithLockBegins(platform, n) ==
    /\ lock_pc \in {"idle", "done"}
    /\ n >= 1
    /\ system' = platform
    /\ retries' = n
    /\ attempt' = 0
    /\ failed_attempts' = 0
    /\ lock_acquired' = FALSE
    /\ times_written' = 0
    /\ lock_pc' = "attempt"
    /\ lock_result' = "none"
    /\ UNCHANGED notLockVars

\* lines 46-61: msvcrt.locking(LK_NBLCK) either locks, and the content is
\* written and the call returns (54-55), or raises PermissionError, which
\* ends the call on the last attempt (59-60) and is slept over before
\* (61)
AttemptWin32(acquired) ==
    /\ lock_pc = "attempt"
    /\ system = "win32"
    /\ IF acquired
       THEN /\ times_written' = times_written + 1
            /\ lock_acquired' = TRUE
            /\ lock_result' = "returned"
            /\ lock_pc' = "done"
            /\ UNCHANGED <<attempt, failed_attempts>>
       ELSE /\ failed_attempts' = failed_attempts + 1
            /\ IF attempt >= retries - 1
               THEN /\ lock_result' = "PermissionError"
                    /\ lock_pc' = "done"
                    /\ UNCHANGED attempt
               ELSE /\ attempt' = attempt + 1
                    /\ UNCHANGED <<lock_result, lock_pc>>
            /\ UNCHANGED <<times_written, lock_acquired>>
    /\ UNCHANGED <<system, retries, notLockVars>>

\* lines 65-78: flock(LOCK_EX) either locks, and the content is written and
\* `return` is reached (70-72), or raises OSError, handled by lines 73-76.
\* Either way the `finally` of line 78 then calls flock(fd, LOCK_NB), an
\* operation that names no lock type and raises OSError (EINVAL); raised in
\* a `finally`, it replaces the return value or the handled exception and
\* leaves the loop and the call.  The written content reaches the file
\* when the `with` of line 65 closes it.
AttemptPosix(acquired) ==
    /\ lock_pc = "attempt"
    /\ system # "win32"
    /\ IF acquired
       THEN /\ times_written' = times_written + 1
            /\ lock_acquired' = TRUE
            /\ UNCHANGED failed_attempts
       ELSE /\ failed_attempts' = failed_attempts + 1
            /\ UNCHANGED <<times_written, lock_acquired>>
    /\ lock_result' = "OSError"
    /\ lock_pc' = "done"
    /\ UNCHANGED <<system, retries, attempt, notLockVars>>

(***************************************************************************)
(* BaseValidator (dandi_s3_log_parser/validation/_base_validator.py).  A   *)
(* key of self.record is a file path with or without a trailing "\n".      *)
(***************************************************************************)
RecordKey(path, newline) == [path |-> path, newline |-> newline]

\* line 49: a line `{file_path}\n` of the record file, there before the
\* validator is constructed
RecordFileHolds(f) ==
    /\ validator_pc = "none"
    /\ f \notin Range(validator_record_file)
    /\ validator_record_file' = Append(validator_record_file, f)
    /\ UNCHANGED <<validator_pc, validator_record, validate_calls, validated_file, rule_raised,
                   rule_runs, notValidatorVars>>

\* lines 15-26: readlines() keeps the "\n" of every line, so every key
\* loaded from the record file ends with it
ValidatorConstruct ==
    /\ validator_pc = "none"
    /\ validator_record' = {RecordKey(validator_record_file[i], TRUE) :
                               i \in DOMAIN validator_record_file}
    /\ validator_pc' = "ready"
    /\ UNCHANGED <<validator_record_file, validate_calls, validated_file, rule_raised,
                   rule_runs, notValidatorVars>>

\* lines 51-68: `if self.record.get(absolute_path, False) is False: return`
\* returns for a path that is not a key; otherwise the rule is run (65)
\* and, unless it raises, the path is set in self.record (67) and appended
\* to the record file (68)
validate_file(f, raises) ==
    /\ validator_pc = "ready"
    /\ validate_calls < MaxValidateCalls
    /\ validate_calls' = validate_calls + 1
    /\ validated_file' = f
    /\ rule_raised' = raises
    /\ IF RecordKey(f, FALSE) \notin validator_record
       THEN UNCHANGED <<validator_record, validator_record_file, rule_runs>>
       ELSE /\ rule_runs' = Append(rule_runs, f)
            /\ IF raises
               THEN UNCHANGED <<validator_record, validator_record_file>>
               ELSE /\ validator_record' = validator_record \cup {RecordKey(f, FALSE)}
                    /\ validator_record_file' = Append(validator_record_file, f)
    /\ UNCHANGED <<validator_pc, notValidatorVars>>

InitExceptWorkers ==
    /\ mirror_copy_start_record = {}
    /\ mirror_copy_end_record = {}
    /\ extraction_record_file = {}
    /\ stop_file = FALSE
    /\ mirror_dirs = {}
    /\ mirror = EmptyMirror
    /\ extraction_stop_file = FALSE
    /\ tmp_dirs = {}
    /\ tmp_streams = [p \in Pids |-> <<>>]
    /\ mode \in Modes
    /\ phase = "none"
    /\ ctor_result = "none"
    /\ extraction_record = {}
    /\ files_to_extract = {}
    /\ max_workers = 1
    /\ limit = NoLimit
    /\ run_failed = FALSE
    /\ last_return = "none"
    /\ runs = 0
    /\ crashes = 0
    /\ interrupted = FALSE
    /\ began_extracted = FALSE
    /\ wpc = [p \in Pids |-> "idle"]
    /\ wfile = [p \in Pids |-> NoFile]
    /\ wpos = [p \in Pids |-> 1]
    /\ stop_pc = "idle"
    /\ max_timeout_in_seconds = 0
    /\ time_so_far_in_seconds = 0
    /\ stop_polls = 0
    /\ stop_result = "none"
    /\ writer_pc = [w \in Writers |-> "start"]
    /\ record_lock = [r \in RecordFiles |-> NoHolder]
    /\ record_lines = [r \in RecordFiles |-> <<>>]
    /\ full_ips_txt = [d \in Keys |-> NoFileYet]
    /\ indexed_ips_txt = [d \in Keys |-> NoFileYet]
    /\ full_ips_newer = [d \in Keys |-> FALSE]
    /\ indexed_ips_yaml = EmptyMap
    /\ index_pc = "idle"
    /\ index_result = "none"
    /\ index_runs = 0
    /\ index_loaded = EmptyMap
    /\ index_to_ip = EmptyMap
    /\ ip_to_index = EmptyMap
    /\ indexed_ips = {}
    /\ batch_list = {}
    /\ full_ip_file_path = "a"
    /\ ips_to_index = {}
    /\ current_ip = "ip1"
    /\ new_index = 0
    /\ redraw = 0
    /\ password = "pw1"
    /\ cache_file = NoCacheFile
    /\ save_pc = "idle"
    /\ save_content = encrypt_bytes(<<>>, "pw1")
    /\ last_saved = EmptyMap
    /\ last_saved_password = "pw1"
    /\ load_result = [raised |-> FALSE, value |-> EmptyMap]
    /\ nested_days = 0
    /\ processed_dates_file = <<>>
    /\ processed_months_file = EmptyMap
    /\ processed_years_file = {}
    /\ aws_access_key_id = TRUE
    /\ aws_secret_access_key = TRUE
    /\ aws_credentials_file = "absent"
    /\ credentials_file_read = FALSE
    /\ remote_pc = "idle"
    /\ remote_result = "none"
    /\ remote_runs = 0
    /\ manifest = {}
    /\ date_limit = NoLimit
    /\ listed = FALSE
    /\ processed_dates = {}
    /\ processed_months_per_year = EmptyMap
    /\ processed_years = {}
    /\ unprocessed_months_per_year = EmptyMap
    /\ date_to_download_type = EmptyMap
    /\ dates_to_process = <<>>
    /\ downloaded = <<>>
    /\ extracted = <<>>
    /\ handle_pc = "start"
    /\ handled = NotHandled
    /\ resets = 0
    /\ last_reset = "none"
    /\ stale_tmp = {}
    /\ system = "linux"
    /\ retries = 0
    /\ lock_pc = "idle"
    /\ attempt = 0
    /\ failed_attempts = 0
    /\ lock_acquired = FALSE
    /\ times_written = 0
    /\ lock_result = "none"
    /\ validator_record_file = <<>>
    /\ validator_pc = "none"
    /\ validator_record = {}
    /\ validate_calls = 0
    /\ validated_file = "L1"
    /\ rule_raised = FALSE
    /\ rule_runs = <<>>

\* the command line's default is --workers -2
Init ==
    /\ InitExceptWorkers
    /\ requested_workers = -2
    /\ sys_platform = "linux"
    /\ cpu_count = 1

\* every argument, platform and processor count _handle_max_workers can meet
InitWorkers ==
    /\ InitExceptWorkers
    /\ requested_workers \in (-MaxWorkers)..MaxWorkers
    /\ sys_platform \in Platforms
    /\ cpu_count \in CpuCounts

(***************************************************************************)
(* Spec: the extractor with process kills.                                 *)
(***************************************************************************)
Next ==
    \/ Construct
    \/ \E lim \in Limits, workers \in {1, 2} : extract_directory(lim, workers)
    \/ \E w \in Pids, f \in LogFiles : ExtractFileBegin(w, f)
    \/ \E w \in Pids : ExtractFileStep(w)
    \/ ExtractDirectoryEnds
    \/ Crash

Spec == Init /\ [][Next]_vars

(***************************************************************************)
(* SpecNoKill: the extractor alone; every call runs to its return or to    *)
(* the exception it raises.                                                *)
(***************************************************************************)
NextNoKill ==
    \/ Construct
    \/ \E lim \in Limits, workers \in {1, 2} : extract_directory(lim, workers)
    \/ \E w \in Pids, f \in LogFiles : ExtractFileBegin(w, f)
    \/ \E w \in Pids : ExtractFileStep(w)
    \/ ExtractDirectoryEnds

SpecNoKill == Init /\ [][NextNoKill]_vars

(***************************************************************************)
(* SpecSentinel: the extractor and an operator who creates and removes the *)
(* stop file of the records directory; no process is killed.               *)
(***************************************************************************)
NextSentinel ==
    \/ Construct
    \/ \E lim \in Limits, workers \in {1, 2} : extract_directory(lim, workers)
    \/ \E w \in Pids, f \in LogFiles : ExtractFileBegin(w, f)
    \/ \E w \in Pids : ExtractFileStep(w)
    \/ ExtractDirectoryEnds
    \/ CreateStopFile
    \/ RemoveStopFile

SpecSentinel == Init /\ [][NextSentinel]_vars

(***************************************************************************)
(* SpecStop: one extract_directory call and the stop command, run once in  *)
(* another console while the call is in progress or after it.              *)
(***************************************************************************)
NextStop ==
    \/ Construct
    \/ /\ runs < MaxStopRuns
       /\ \E lim \in Limits, workers \in {1, 2} : extract_directory(lim, workers)
    \/ \E w \in Pids, f \in LogFiles : ExtractFileBegin(w, f)
    \/ \E w \in Pids : ExtractFileStep(w)
    \/ ExtractDirectoryEnds
    \/ stop_extraction
    \/ \E timeout \in MinTimeout..MaxTimeout : StopCliBegins(timeout)
    \/ StopCliTouches
    \/ StopCliPolls

SpecStop == Init /\ [][NextStop]_vars

(***************************************************************************)
(* SpecStopFair: SpecStop with the polling loop of the stop command and    *)
(* the steps of the extraction processes scheduled fairly.                 *)
(***************************************************************************)
SpecStopFair ==
    /\ SpecStop
    /\ WF_vars(StopCliTouches)
    /\ WF_vars(StopCliPolls)

(***************************************************************************)
(* SpecAppend: the pool workers' appends to the start and end records.     *)
(***************************************************************************)
NextAppend ==
    \/ \E w \in Writers : RecordFileOpen(w)
    \/ \E w \in Writers : RecordFileWriteClose(w)

SpecAppend == Init /\ [][NextAppend]_vars

(***************************************************************************)
(* SpecIndex: runs of index_ips, with extraction adding lines to the       *)
(* full_ips.txt files between them.                                        *)
(***************************************************************************)
(***************************************************************************)
(* SpecCache: calls of save_index_to_ip and load_index_to_ip, the load     *)
(* possibly running while a save is between two of its steps.              *)
(***************************************************************************)
NextCache ==
    \/ \E pw \in Passwords : SetPassword(pw)
    \/ \E map \in Maps : SaveBegins(map)
    \/ SaveOpens
    \/ \E n \in 1..(high + 1) : SaveWrites(n)
    \/ LoadTouches
    \/ LoadReads

SpecCache == Init /\ [][NextCache]_vars

(***************************************************************************)
(* SpecRemote: extract_s3 calls with both credential variables set, the    *)
(* bucket gaining a day of logs between them.  A manifest lists the dates  *)
(* up to some date.                                                        *)
(***************************************************************************)
Manifests == {{}} \cup {1..b : b \in Dates}

DateLimits == {NoLimit, 1}

NextRemote ==
    \/ NewDayOfLogs
    \/ \E mf \in Manifests, lim \in DateLimits, ls_ok \in BOOLEAN :
          RemoteRunBegins(mf, lim, ls_ok)
    \/ \E ok \in BOOLEAN : RemoteDownloads(ok)
    \/ \E ok \in BOOLEAN : RemoteExtracts(ok)
    \/ RemoteRecordsDate
    \/ RemoteUpdatesRecords

SpecRemote == Init /\ [][NextRemote]_vars

(***************************************************************************)
(* SpecRemoteSeeded: SpecRemote over a records directory whose             *)
(* processed_months_per_year.yaml may have been given an entry for every   *)
(* year before the first call; the code itself never creates a year entry  *)
(* (line 201 raises KeyError instead), so this is the only way for a month *)
(* to get marked.                                                          *)
(***************************************************************************)
Years == 1..NumYears

\* processed_months_per_year.yaml is written by hand with `<year>: {}` for
\* every year, to be read by lines 51-53
SeedMonthsRecord ==
    /\ remote_pc = "idle"
    /\ remote_runs = 0
    /\ nested_days = 0
    /\ processed_months_file = EmptyMap
    /\ processed_months_file' = [y \in Years |-> {}]
    /\ UNCHANGED <<nested_days, processed_dates_file, processed_years_file, credentialVars,
                   remoteRunVars, notRemoteVars>>

NextRemoteSeeded ==
    \/ SeedMonthsRecord
    \/ NextRemote

SpecRemoteSeeded == Init /\ [][NextRemoteSeeded]_vars

(***************************************************************************)
(* SpecCredentials: extract_s3 calls without a manifest under every        *)
(* setting of the two environment variables and the credentials file.      *)
(***************************************************************************)
NextCredentials ==
    \/ \E key_id, secret \in BOOLEAN, file \in CredentialFiles :
          SetCredentials(key_id, secret, file)
    \/ NewDayOfLogs
    \/ \E ls_ok \in BOOLEAN : RemoteRunBegins({}, NoLimit, ls_ok)
    \/ \E ok \in BOOLEAN : RemoteDownloads(ok)
    \/ \E ok \in BOOLEAN : RemoteExtracts(ok)
    \/ RemoteRecordsDate
    \/ RemoteUpdatesRecords

SpecCredentials == Init /\ [][NextCredentials]_vars

NextIndex ==
    \/ \E d \in Keys, ip \in Ips : ExtractionAppendsIp(d, ip)
    \/ IndexRunBegins
    \/ \E d \in Keys : IndexFileBegins(d)
    \/ \E ip \in Ips, n \in Indexes : IndexDraws(ip, n)
    \/ \E n \in Indexes : IndexRedraws(n)
    \/ IndexRaises
    \/ IndexAssigns
    \/ IndexWritesFile
    \/ IndexSaves

SpecIndex == Init /\ [][NextIndex]_vars

(***************************************************************************)
(* SpecReset: the extractor, kills that leave directories in tmp/, an      *)
(* operator who creates the stop file, and the reset operations.           *)
(***************************************************************************)
NextReset ==
    \/ Construct
    \/ /\ runs < MaxResetRuns
       /\ \E lim \in Limits, workers \in {1, 2} : extract_directory(lim, workers)
    \/ \E w \in Pids, f \in LogFiles : ExtractFileBegin(w, f)
    \/ \E w \in Pids : ExtractFileStep(w)
    \/ ExtractDirectoryEnds
    \/ CrashLeavesTmp
    \/ CreateStopFile
    \/ reset_cache
    \/ \E name \in {"extraction", "tmp"} : ResetCli(name)

SpecReset == Init /\ [][NextReset]_vars

(***************************************************************************)
(* SpecValidator: a validator constructed over a record file and its       *)
(* validate_file calls.                                                    *)
(***************************************************************************)
NextValidator ==
    \/ \E f \in LogFiles : RecordFileHolds(f)
    \/ ValidatorConstruct
    \/ \E f \in LogFiles, raises \in BOOLEAN : validate_file(f, raises)

SpecValidator == Init /\ [][NextValidator]_vars

(***************************************************************************)
(* SpecLock: calls of _append_with_lock on both platforms.                 *)
(***************************************************************************)
NextLock ==
    \/ \E platform \in Platforms, n \in 1..MaxRetries : AppendWithLockBegins(platform, n)
    \/ \E acquired \in BOOLEAN : AttemptWin32(acquired)
    \/ \E acquired \in BOOLEAN : AttemptPosix(acquired)

SpecLock == Init /\ [][NextLock]_vars

(***************************************************************************)
(* SpecWorkers: _handle_max_workers applied once to each input.            *)
(***************************************************************************)
NextWorkers == HandleMaxWorkers

SpecWorkers == InitWorkers /\ [][NextWorkers]_vars

(***************************************************************************)
(* What a log file has contributed to the mirror tree.                     *)
(***************************************************************************)
StreamNames == {"ts", "bs", "ip"}

\* how many times source record r stands in stream s of its key's directory
Copies(r, s) == Occurrences(mirror[KeyOf(r)][s], r)

\* every matching record of f stands equally often in each of the three streams
AllOrNone(f) ==
    \A r1, r2 \in Range(RecordsOf(f)) : \A s1, s2 \in StreamNames :
        Copies(r1, s1) = Copies(r2, s2)

(***************************************************************************)
(* C1.  Startup corruption check: whatever the state of the start and end  *)
(* record files, if some path is in the start record and not in the end    *)
(* record, the constructor raises the corruption error and no extractor    *)
(* comes to exist.                                                         *)
(***************************************************************************)
C1_CorruptionRefused ==
    [][(Construct /\ mirror_copy_start_record \ mirror_copy_end_record # {})
          => (ctor_result' = "ValueError" /\ phase' = "none")]_vars

(***************************************************************************)
(* C2.  Crash safety of the mirror: whenever a constructor call succeeds,  *)
(* every log file has contributed all of its matching records to the       *)
(* mirror tree or none of them.                                            *)
(***************************************************************************)
C2_AllOrNoneAtStartup ==
    [][(Construct /\ ctor_result' = "ok") => \A f \in LogFiles : AllOrNone(f)]_vars

(***************************************************************************)
(* C3.  The records of one log file are appended to the mirror tree at     *)
(* most once: no source record stands twice in a stream.                   *)
(***************************************************************************)
C3_AppendedAtMostOnce ==
    \A f \in LogFiles : \A r \in Range(RecordsOf(f)) : \A s \in StreamNames :
        Copies(r, s) <= 1

(***************************************************************************)
(* C4.  Idempotent extraction: a call of extract_directory that begins     *)
(* after a call has returned normally with every log file with matching    *)
(* records extracted is a no-op: from its first step to its return, no     *)
(* step changes the mirror tree or the end record.                         *)
(***************************************************************************)
C4_SecondCallIsNoOp ==
    [][began_extracted
          => UNCHANGED <<mirror, mirror_dirs, mirror_copy_end_record>>]_vars

(***************************************************************************)
(* C5.  Empty log tolerated: when extract_file returns because the scanner *)
(* left no object_keys.txt, the file is in the end record.                 *)
(***************************************************************************)
C5_EmptyLogRecorded ==
    [][\A w \in Pids : RunExtractionNoKeys(w) => wfile[w] \in mirror_copy_end_record']_vars

(***************************************************************************)
(* C6.  After extract_directory returns normally, the start record, the    *)
(* end record and the extraction record hold the same set of paths.        *)
(***************************************************************************)
C6_RecordsAgree ==
    (phase = "ready" /\ last_return = "normal")
        => /\ mirror_copy_start_record = mirror_copy_end_record
           /\ mirror_copy_end_record = extraction_record_file

(***************************************************************************)
(* C7.  Stop sentinel: while records/stop_extraction exists, an            *)
(* extract_file call that begins returns at once, without error and        *)
(* without a change to the start record, the mirror tree, the end record   *)
(* or the extraction record; a call already past its stop check is not cut *)
(* short by the sentinel: it returns only by completing the file (the path *)
(* reaches the extraction record), by finding that the scanner left no     *)
(* object keys, or by raising.                                             *)
(***************************************************************************)
C7_BeginsUnderSentinel(w) ==
    \A f \in LogFiles :
        (stop_file /\ ExtractFileBegin(w, f))
            => /\ wpc'[w] = "idle"
               /\ UNCHANGED <<recordVars, mirror, mirror_dirs, run_failed>>

C7_BegunIsCompleted(w) ==
    (stop_file /\ wpc[w] # "idle" /\ wpc'[w] = "idle")
        => \/ wfile[w] \in extraction_record_file'
           \/ wpc[w] = "scan"
           \/ run_failed'

C7_StopSentinel ==
    [][\A w \in Pids : C7_BeginsUnderSentinel(w) /\ C7_BegunIsCompleted(w)]_vars

\* the sentinel was placed after L1 was processed: L2 and L3 were begun and left alone
C7_Witness ==
    /\ phase = "running"
    /\ runs = 1
    /\ limit = NoLimit
    /\ stop_file
    /\ files_to_extract = {}
    /\ AllIdle
    /\ ~run_failed
    /\ mirror_copy_start_record = {"L1"}
    /\ mirror_copy_end_record = {"L1"}
    /\ extraction_record_file = {"L1"}

(***************************************************************************)
(* C8.  The stop command creates the sentinel the workers check: once the  *)
(* stop command has created its stop file, every extract_file call that    *)
(* begins returns at once, so that no further log file is begun.           *)
(***************************************************************************)
C8_StopCommandStopsWorkers ==
    [][\A w \in Pids, f \in LogFiles :
          (extraction_stop_file /\ ExtractFileBegin(w, f)) => wpc'[w] = "idle"]_vars

(***************************************************************************)
(* C9.  The stop command always terminates: its polling loop sleeps at     *)
(* most `timeout` times.                                                   *)
(***************************************************************************)
C9_PollsWithinTimeout == stop_polls <= max_timeout_in_seconds

(***************************************************************************)
(* C10.  Positional correspondence under concurrency: after a call in      *)
(* which no extract_file call was cut short has returned, line i of        *)
(* timestamps.txt, of bytes_sent.txt and of full_ips.txt of every object   *)
(* key come from the same source record, for every i.                      *)
(***************************************************************************)
C10_PositionalCorrespondence ==
    (phase = "ready" /\ last_return = "normal" /\ crashes = 0 /\ ~interrupted)
        => \A k \in Keys : mirror[k].ts = mirror[k].bs /\ mirror[k].bs = mirror[k].ip

(***************************************************************************)
(* C11.  Line-count equality at rest: whenever no worker is inside the     *)
(* mirror-copy step and no process has been killed, the three streams of   *)
(* every object key hold the same number of lines.                         *)
(***************************************************************************)
MirrorAtRest == \A w \in Pids : wpc[w] # "mirror"

C11_LineCountsAtRest ==
    (MirrorAtRest /\ crashes = 0)
        => \A k \in Keys : /\ Len(mirror[k].ts) = Len(mirror[k].bs)
                            /\ Len(mirror[k].bs) = Len(mirror[k].ip)

\* two pool workers have both written key a and one of them is still in a call
C11_Witness ==
    /\ MirrorAtRest
    /\ crashes = 0
    /\ phase = "running"
    /\ max_workers = 2
    /\ Len(mirror["a"].ts) = 2
    /\ Len(mirror["b"].ip) = 1
    /\ \E w \in Pids : wpc[w] = "end"

(***************************************************************************)
(* C12.  Extraction with 2 workers produces the same mirror tree as        *)
(* extraction with 1 worker: when a first call over the whole directory    *)
(* with two workers returns normally, the mirror tree is one that the      *)
(* one-worker loop produces, which extracts the files one after the other  *)
(* in some order.                                                          *)
(***************************************************************************)
SerialOrders ==
    {o \in [1..Cardinality(FilesWithRecords) -> FilesWithRecords] :
        \A i, j \in DOMAIN o : o[i] = o[j] => i = j}

RECURSIVE SerialLines(_, _)
\* the lines of a stream of key k after the files of o were extracted in turn
SerialLines(o, k) ==
    IF o = <<>> THEN <<>>
    ELSE SerialLines(SubSeq(o, 1, Len(o) - 1), k) \o BinnedData(RecordsOf(o[Len(o)]), k)

SerialMirrors ==
    {[k \in Keys |-> [ts |-> SerialLines(o, k), bs |-> SerialLines(o, k),
                       ip |-> SerialLines(o, k)]] : o \in SerialOrders}

FirstWholeCallReturns(workers) ==
    /\ ExtractDirectoryEnds
    /\ runs = 1
    /\ limit = NoLimit
    /\ max_workers = workers
    /\ ~run_failed
    /\ FilesWithRecords \subseteq extraction_record_file

C12_TwoWorkersAsOneWorker ==
    [][FirstWholeCallReturns(2) => mirror \in SerialMirrors]_vars

\* the reference itself: what the one-worker loop leaves is in SerialMirrors
C12_OneWorkerReference ==
    [][FirstWholeCallReturns(1) => mirror \in SerialMirrors]_vars

(***************************************************************************)
(* C13.  Start-record ordering: a step that appends a line of a log file   *)
(* to a mirror stream is taken only when the path of the file whose        *)
(* extract_file call makes the step is in the start record, and the lines  *)
(* it appends come from that file.                                         *)
(***************************************************************************)
\* the lines that the step adds to stream s of key k
Appended(k, s) == SubSeq(mirror'[k][s], Len(mirror[k][s]) + 1, Len(mirror'[k][s]))

C13_StartRecordFirst ==
    [][\A k \in Keys, s \in StreamNames :
          \A r \in Range(Appended(k, s)) : r[1] \in mirror_copy_start_record]_vars

\* a line of L2 stands in the mirror while L2's call is still in its mirror copy
C13_Witness ==
    /\ \E w \in Pids : wpc[w] = "mirror" /\ wfile[w] = "L2"
    /\ <<"L2", 1>> \in Range(mirror["a"].ip)
    /\ "L2" \in mirror_copy_start_record
    /\ "L2" \notin mirror_copy_end_record

(***************************************************************************)
(* C14.  End-record ordering: when extract_file appends a path to the end  *)
(* record, every matching record of the file stands in each of the three   *)
(* streams of its key, and the temporary directory of the worker has been  *)
(* removed.                                                                *)
(***************************************************************************)
C14_EndRecordLast ==
    [][\A w \in Pids :
          RecordMirrorCopyEnd(w)
              => /\ \A r \in Range(RecordsOf(wfile[w])) : \A s \in StreamNames : Copies(r, s) >= 1
                 /\ w \notin tmp_dirs]_vars

\* the part of C14 about the mirror data alone
C14_MirrorDataBeforeEndRecord ==
    [][\A w \in Pids :
          RecordMirrorCopyEnd(w)
              => \A r \in Range(RecordsOf(wfile[w])) : \A s \in StreamNames : Copies(r, s) >= 1]_vars

(***************************************************************************)
(* C15.  Scanner failure: when the scan program returns non-zero,          *)
(* extract_file raises; the three records and the mirror tree are left as  *)
(* they were, so that the failure adds nothing to the difference of the    *)
(* start and end records that the startup check looks at; the file is not  *)
(* in the object's extraction record, so that it stays in the unextracted  *)
(* files of the next call; and the call of extract_directory in which an   *)
(* extract_file call raised ends by raising.                               *)
(***************************************************************************)
C15_ScannerFailure ==
    [][/\ \A w \in Pids :
             RunExtractionFails(w)
                 => /\ run_failed'
                    /\ wpc'[w] = "idle"
                    /\ UNCHANGED <<recordVars, mirror, mirror_dirs>>
                    /\ wfile[w] \in LogFiles \ extraction_record'
       /\ (ExtractDirectoryEnds /\ run_failed) => last_return' = "raised"]_vars

\* a call ended by a scanner failure with nothing recorded, and the next call scans again
C15_Witness ==
    /\ last_return = "raised"
    /\ mirror_copy_start_record = {}
    /\ extraction_record_file = {}
    /\ ctor_result = "ok"
    /\ runs = 2
    /\ phase = "running"
    /\ \E w \in Pids : wpc[w] = "scan"

(***************************************************************************)
(* C16.  Appends to the start and end record files are mutually exclusive: *)
(* a worker that has a record file open for its append holds the flock of  *)
(* that file, and no two workers have the same record file open for        *)
(* writing at the same time.                                               *)
(***************************************************************************)
C16_RecordAppendsExclusive ==
    \A w \in Writers :
        OpenRecord(writer_pc[w]) # NoHolder
            => /\ record_lock[OpenRecord(writer_pc[w])] = w
               /\ \A v \in Writers \ {w} : OpenRecord(writer_pc[v]) # OpenRecord(writer_pc[w])

\* the second half of C16 alone: no two workers write the same record file at once
C16_OneWriterAtATime ==
    \A w, v \in Writers :
        (w # v /\ OpenRecord(writer_pc[w]) # NoHolder)
            => OpenRecord(writer_pc[v]) # OpenRecord(writer_pc[w])

(***************************************************************************)
(* C17.  Deterministic iteration: a call of extract_directory hands the    *)
(* log files to extract_file in natural-sort order, and with a `limit` it  *)
(* selects the first `limit` unextracted files of that order; so two runs  *)
(* from the same directory and records process the same files in the same  *)
(* sequence.                                                               *)
(***************************************************************************)
\* the place of a log file in natsort.natsorted(directory.rglob("*.log"))
NaturalRank(f) == CASE f = "L1" -> 1 [] f = "L2" -> 2 [] OTHER -> 3

FirstInNaturalOrder(files, lim) ==
    IF lim = NoLimit THEN files
    ELSE {f \in files : Cardinality({g \in files : NaturalRank(g) < NaturalRank(f)}) < lim}

C17_DeterministicIteration ==
    [][/\ (phase = "ready" /\ phase' = "running")
             => files_to_extract' = FirstInNaturalOrder(unextracted_files, limit')
       /\ \A w \in Pids, f \in LogFiles :
             (ExtractFileBegin(w, f) /\ max_workers = 1)
                 => \A g \in files_to_extract : NaturalRank(f) <= NaturalRank(g)]_vars

(***************************************************************************)
(* index_ips                                                               *)
(***************************************************************************)
\* the IPs of the lines of <d>/full_ips.txt that an indexed_ips.txt covers
ProcessedIps(d) == {full_ips_txt[d][j] : j \in 1..Len(indexed_ips_txt[d])}

IndexesOf(map, ip) == {i \in DOMAIN map : map[i] = ip}

\* C18: between index_ips runs, every IP of a processed full_ips.txt has
\* exactly one index in the persisted index_to_ip map (an index, being a key
\* of the map, never stands for two IPs).
C18_IndexInjectivity ==
    index_pc = "idle" =>
        \A d \in Keys : \A ip \in ProcessedIps(d) :
            Cardinality(IndexesOf(indexed_ips_yaml, ip)) = 1


IpsOf(map) == {map[i] : i \in DOMAIN map}

\* C19: the persisted index_to_ip map only grows: every (index, IP) pair
\* stays as it is, an IP that has an index gets no second one, and a run
\* that meets only IPs of the map it loaded leaves the map as it was.
C19_IndexMonotonicity ==
    [][/\ \A i \in DOMAIN indexed_ips_yaml :
            /\ i \in DOMAIN indexed_ips_yaml'
            /\ indexed_ips_yaml'[i] = indexed_ips_yaml[i]
       /\ \A ip \in IpsOf(indexed_ips_yaml) :
            IndexesOf(indexed_ips_yaml', ip) = IndexesOf(indexed_ips_yaml, ip)
       /\ (/\ index_pc = "files" /\ index_pc' = "idle"
           /\ \A d \in Keys : Range(full_ips_txt[d]) \subseteq IpsOf(index_loaded))
            => indexed_ips_yaml' = indexed_ips_yaml]_vars

\* a second run has loaded a map with an entry, met a known and a new IP,
\* and saved a larger map
C19_Witness ==
    /\ index_pc = "idle" /\ index_result = "ok" /\ index_runs = 2
    /\ index_loaded # EmptyMap
    /\ Cardinality(DOMAIN indexed_ips_yaml) > Cardinality(DOMAIN index_loaded)
    /\ \E d \in Keys :
        /\ ~full_ips_newer[d] /\ Len(indexed_ips_txt[d]) = 2
        /\ full_ips_txt[d][1] \in IpsOf(index_loaded)
        /\ full_ips_txt[d][2] \notin IpsOf(index_loaded)


\* C20: the collision error is raised exactly when every draw of the budget
\* (the first draw and max_redraws redraws) hit an index in use; a draw of
\* an unused index within the budget ends in the assignment of that index.
C20_CollisionBudget ==
    [][(index_pc = "while" /\ index_pc' # "while") =>
          /\ index_result' = "ValueError" <=> Collides(new_index)
          /\ ~Collides(new_index) =>
                /\ index_pc' = "ips"
                /\ new_index \in DOMAIN index_to_ip'
                /\ index_to_ip'[new_index] = current_ip]_vars


\* C21: when an index_ips run returns normally, every directory with a
\* full_ips.txt has an indexed_ips.txt of the same length whose line j is
\* the index the persisted map holds for the IP of line j of full_ips.txt.
C21_IndexedIpsMatchFullIps ==
    [][(index_pc = "files" /\ index_pc' = "idle" /\ index_result' = "ok") =>
          \A d \in Keys : full_ips_txt'[d] # NoFileYet =>
              /\ Len(indexed_ips_txt'[d]) = Len(full_ips_txt'[d])
              /\ \A j \in 1..Len(full_ips_txt'[d]) :
                    /\ indexed_ips_txt'[d][j] \in DOMAIN indexed_ips_yaml'
                    /\ indexed_ips_yaml'[indexed_ips_txt'[d][j]] = full_ips_txt'[d][j]]_vars


(***************************************************************************)
(* The index-to-IP cache file                                              *)
(***************************************************************************)
\* C22: a step of save_index_to_ip that finds the complete previous content
\* in the cache file leaves either that content or the complete new content
\* there, so that a reader never finds an empty or partly written file.
C22_AtomicMapWrite ==
    [][(save_pc # "idle" /\ cache_file.exists /\ Complete(cache_file)) =>
          (cache_file' = cache_file \/ Complete(cache_file'))]_vars

\* C23: a load that follows a finished save under the same passphrase
\* returns the saved mapping, and a load of a missing or empty cache file
\* returns the empty mapping, the second of two loads in a row included.
C23_CacheRoundTrip ==
    [][(save_pc = "idle" /\ load_result' # load_result) =>
          /\ (cache_file.exists /\ Complete(cache_file) /\ last_saved_password = password)
                => load_result' = [raised |-> FALSE, value |-> last_saved]
          /\ (~cache_file.exists \/ cache_file.written = 0)
                => load_result' = [raised |-> FALSE, value |-> EmptyMap]]_vars


(***************************************************************************)
(* RemoteS3LogAccessExtractor.extract_s3                                   *)
(***************************************************************************)
\* the dates the call in progress knows to have logs
DatesWithLogs == NestedDates \cup manifest

MostRecentTwo(dates) ==
    {d \in dates : Cardinality({x \in dates : x > d}) < 2}

\* C24: in an extract_s3 call, with a manifest or without, the two most
\* recent distinct dates that have logs are not downloaded, not extracted
\* and not about to be recorded as processed.
C24_TwoDayBuffer ==
    remote_pc # "idle" =>
        \A d \in MostRecentTwo(DatesWithLogs) :
            /\ d \notin Range(downloaded)
            /\ d \notin Range(extracted)
            /\ d \notin Range(dates_to_process)


\* the call now ending was made without a manifest and with date_limit = 1
\* on a bucket with exactly two days of logs, both of one month and both
\* unprocessed
TwoDayScenario ==
    /\ remote_pc = "update" /\ remote_pc' = "idle"
    /\ manifest = {} /\ date_limit = 1
    /\ nested_days = 2
    /\ Range(processed_dates_file) \cap {1, 2} = Range(extracted)

\* C25: a call with date_limit = 1 on a remote layout of exactly two
\* unprocessed days of one month downloads and extracts exactly one day and
\* has appended it to processed_dates.yaml; the month is not marked done.
C25_RemotePerDayScenario ==
    [][TwoDayScenario =>
          /\ Len(downloaded) = 1 /\ extracted = downloaded
          /\ Range(processed_dates_file') \cap {1, 2} = Range(downloaded)
          /\ 1 \notin KeysOf(processed_months_file', 1)]_vars

\* C25 as the code has it: both days are inside the two-day buffer, so the
\* call downloads and extracts nothing and records nothing, and the month
\* is not marked done.
C25_BothDaysBuffered ==
    [][TwoDayScenario =>
          /\ downloaded = <<>> /\ extracted = <<>>
          /\ processed_dates_file' = <<>>
          /\ remote_result' = "ok"
          /\ 1 \notin KeysOf(processed_months_file', 1)]_vars

C25_Witness ==
    /\ remote_pc = "idle" /\ remote_result = "ok" /\ remote_runs = 1
    /\ listed /\ manifest = {} /\ date_limit = 1 /\ nested_days = 2
    /\ processed_dates_file = <<>>


Last(a_list) == a_list[Len(a_list)]

\* C26: a date is appended to processed_dates.yaml only when its download
\* and its extraction have just succeeded; when either subprocess fails the
\* call ends with the error, the date in hand is not recorded, no further
\* date is downloaded or extracted, and what was recorded stays recorded.
C26_RecordedAfterSuccess ==
    [][/\ processed_dates_file' # processed_dates_file =>
            /\ processed_dates_file' = Append(processed_dates_file, Head(dates_to_process))
            /\ downloaded # <<>> /\ Last(downloaded) = Head(dates_to_process)
            /\ extracted # <<>> /\ Last(extracted) = Head(dates_to_process)
            /\ Len(downloaded) = Len(extracted)
       /\ (remote_pc \in {"download", "extract"} /\ downloaded' = downloaded
                /\ extracted' = extracted) =>
            /\ remote_result' = "RuntimeError"
            /\ remote_pc' = "idle"
            /\ processed_dates_file' = processed_dates_file
       /\ remote_pc = "idle" =>
            /\ downloaded' \in {downloaded, <<>>}
            /\ extracted' \in {extracted, <<>>}
            /\ processed_dates_file' = processed_dates_file]_vars

\* the extraction of the second date of a call failed after the first date
\* had been recorded
C26_Witness ==
    /\ remote_pc = "idle" /\ remote_result = "RuntimeError"
    /\ Len(extracted) = 1 /\ Len(downloaded) = 2
    /\ extracted[1] \in Range(processed_dates_file)
    /\ downloaded[2] \notin Range(processed_dates_file)


\* C27: at the end of the per-day loop every unprocessed month of the run
\* whose processed dates number the days of the month is marked done, also
\* in a year that has no entry in processed_months_per_year yet, a year with
\* all its months marked is marked done, and both records are written.
C27_ProgressAggregation ==
    [][(remote_pc = "update" /\ remote_pc' = "idle") =>
          /\ \A y \in DOMAIN unprocessed_months_per_year :
                /\ \A m \in unprocessed_months_per_year[y] :
                      MonthComplete(y, m) => m \in KeysOf(processed_months_file', y)
                /\ Cardinality(KeysOf(processed_months_file', y)) = MonthsPerYear
                      => y \in processed_years_file'
          /\ remote_result' = "ok"]_vars


\* C30: with both environment variables set _handle_aws_credentials does
\* not read the credentials file; with a variable missing and no usable
\* credentials file the call ends with ValueError; and an extract_s3 call
\* that ends there lists nothing, downloads nothing and writes no record.
C30_Credentials ==
    [][(remote_pc = "idle" /\ remote_runs' # remote_runs) =>
          /\ (aws_access_key_id /\ aws_secret_access_key) => ~credentials_file_read'
          /\ ((~aws_access_key_id \/ ~aws_secret_access_key)
                  /\ aws_credentials_file \in {"absent", "empty"})
                => /\ remote_result' = "ValueError"
                   /\ ~listed'
                   /\ remote_pc' = "idle"
                   /\ UNCHANGED remoteFileVars]_vars


(***************************************************************************)
(* C28.  Worker count.                                                     *)
(***************************************************************************)
\* C28 as stated: for every negative workers value n, _handle_max_workers
\* returns cpu_count + n + 1.
C28_NegativeWorkers ==
    (handle_pc = "done" /\ requested_workers < 0) =>
        /\ handled.raised = "none"
        /\ handled.max_workers = cpu_count + requested_workers + 1

\* C28, amended: off Windows and with a known processor count, a negative
\* n returns cpu_count + n + 1 when -cpu_count <= n and (n mod cpu_count) + 1
\* in every case, which lies in 1..cpu_count; on Windows the result is 1;
\* when os.cpu_count() is None the call raises TypeError.
C28_NegativeWorkersWrap ==
    (handle_pc = "done" /\ requested_workers < 0) =>
        IF cpu_count = UnknownCpuCount
        THEN handled.raised = "TypeError"
        ELSE /\ handled.raised = "none"
             /\ sys_platform = "win32" => handled.max_workers = 1
             /\ sys_platform # "win32" =>
                   /\ handled.max_workers = (requested_workers % cpu_count) + 1
                   /\ handled.max_workers \in 1..cpu_count
                   /\ requested_workers >= -cpu_count =>
                         handled.max_workers = cpu_count + requested_workers + 1

C28_Witness ==
    /\ handle_pc = "done"
    /\ sys_platform = "linux"
    /\ cpu_count = 4
    /\ requested_workers = -2
    /\ handled.max_workers = 3


(***************************************************************************)
(* C29.  Reset extraction removes the mirror tree and the extractor's      *)
(* record files and nothing else.                                          *)
(***************************************************************************)
ResetExtractionRan ==
    /\ resets' # resets
    /\ last_reset' \in {"reset_cache", "reset extraction"}

\* C29: a reset of the extraction (the call of reset_cache or the command
\* `reset extraction`) leaves the mirror tree and the three record files of
\* the extractor empty and leaves the tmp subtree, the ips subtree, the
\* records of processed dates, months and years and the stop file as
\* they were.
C29_ResetExtractionFrame ==
    [][ResetExtractionRan =>
          /\ mirror_dirs' = {}
          /\ mirror' = EmptyMirror
          /\ extraction_record_file' = {}
          /\ mirror_copy_start_record' = {}
          /\ mirror_copy_end_record' = {}
          /\ UNCHANGED <<tmp_dirs, tmp_streams, stale_tmp>>
          /\ UNCHANGED <<indexFileVars, cache_file>>
          /\ UNCHANGED <<processed_dates_file, processed_months_file, processed_years_file>>
          /\ UNCHANGED stop_file]_vars

\* the part of C29 about what is removed
C29_RemovesMirrorAndRecords ==
    [][ResetExtractionRan =>
          /\ mirror_dirs' = {}
          /\ mirror' = EmptyMirror
          /\ extraction_record_file' = {}
          /\ mirror_copy_start_record' = {}
          /\ mirror_copy_end_record' = {}]_vars

\* the part of C29 about the tmp subtree
C29_LeavesTmp ==
    [][ResetExtractionRan => UNCHANGED <<tmp_dirs, tmp_streams, stale_tmp>>]_vars


(***************************************************************************)
(* C31.  Order preservation within one source file.                        *)
(***************************************************************************)
\* lines of one log file, each from a later line of it than the one before
InSourceOrder(lines) ==
    \A i, j \in 1..Len(lines) :
        i < j => (lines[i][1] = lines[j][1] /\ lines[i][2] < lines[j][2])

\* the worker that takes the step
Stepping(w) == wpc[w] = "mirror" /\ (wpc'[w] # wpc[w] \/ wpos'[w] # wpos[w])

\* C31: whenever an extract_file call adds lines to a stream file of a key,
\* what was there stays in front, the added lines are the lines of that
\* key in the call's temporary streams, and they stand in the order of the
\* source log.
C31_OrderPreserved ==
    [][\A k \in Keys : \A s \in StreamNames :
          mirror'[k][s] # mirror[k][s] =>
             /\ SubSeq(mirror'[k][s], 1, Len(mirror[k][s])) = mirror[k][s]
             /\ InSourceOrder(Appended(k, s))
             /\ \A w \in Pids : Stepping(w) =>
                   /\ Range(Appended(k, s)) = {r \in Range(tmp_streams[w]) : KeyOf(r) = k}
                   /\ Len(Appended(k, s)) = Cardinality(Range(Appended(k, s)))]_vars

\* both lines of key a of L1 are in all three stream files, next to each other
C31_Witness ==
    \A s \in StreamNames :
        \E i \in 1..Len(mirror["a"][s]) - 1 :
            /\ mirror["a"][s][i] = <<"L1", 1>>
            /\ mirror["a"][s][i + 1] = <<"L1", 3>>


(***************************************************************************)
(* C32.  Flat-layout download.                                             *)
(***************************************************************************)
\* C32: whenever extract_s3 is about to download a date that is a key of
\* the manifest, the download it has chosen for the date is the batch file
\* of copy commands (`s5cmd run`), whether or not the nested listing holds
\* the date's year and month.
C32_FlatLayoutDownload ==
    (remote_pc = "download" /\ Head(dates_to_process) \in manifest) =>
        date_to_download_type[Head(dates_to_process)] = "run"


(***************************************************************************)
(* C33.  Each date is processed at most once.                              *)
(***************************************************************************)
\* C33: a date whose download and extraction complete in a step has not
\* been extracted before in the same call and is not in processed_dates.yaml,
\* the record of the dates processed by this call and the calls before it.
C33_AtMostOnce ==
    [][Len(extracted') = Len(extracted) + 1 =>
          /\ Last(extracted') \notin Range(extracted)
          /\ Last(extracted') \notin Range(processed_dates_file)]_vars


(***************************************************************************)
(* C34.  Months and years are marked done only when complete.              *)
(***************************************************************************)
\* C34: every month marked done in processed_months_per_year.yaml has all
\* its days in processed_dates.yaml, and every year marked done in
\* processed_years.yaml has all its months marked done.
C34_MarkedOnlyIfComplete ==
    /\ \A y \in DOMAIN processed_months_file : \A m \in processed_months_file[y] :
          DatesOf(y, m) \subseteq Range(processed_dates_file)
    /\ \A y \in processed_years_file :
          KeysOf(processed_months_file, y) = 1..MonthsPerYear

\* a month has been marked while another month of a seeded year has days
\* processed but not all, and a year has been marked
C34_Witness ==
    /\ \E y \in DOMAIN processed_months_file : processed_months_file[y] # {}
    /\ processed_years_file # {}
    /\ \E y \in Years : \E m \in 1..MonthsPerYear :
          /\ DatesOf(y, m) \cap Range(processed_dates_file) # {}
          /\ ~(DatesOf(y, m) \subseteq Range(processed_dates_file))
          /\ m \notin KeysOf(processed_months_file, y)


(***************************************************************************)
(* C35.  Bounded lock retry.                                               *)
(***************************************************************************)
\* C35: when a call of _append_with_lock has ended, the content was
\* written at most once; if an attempt got the lock the content was
\* written once and the call returned; otherwise the call raised, after
\* exactly `retries` failed attempts, and wrote nothing.
C35_BoundedLockRetry ==
    lock_pc = "done" =>
        /\ times_written <= 1
        /\ lock_acquired => (times_written = 1 /\ lock_result = "returned")
        /\ ~lock_acquired =>
              /\ lock_result \notin {"none", "returned"}
              /\ failed_attempts = retries
              /\ times_written = 0

\* C35 on Windows
C35_OnWin32 ==
    (lock_pc = "done" /\ system = "win32") =>
        /\ times_written <= 1
        /\ lock_acquired => (times_written = 1 /\ lock_result = "returned")
        /\ ~lock_acquired =>
              /\ lock_result = "PermissionError"
              /\ failed_attempts = retries
              /\ times_written = 0

\* the part of C35 that holds everywhere
C35_WrittenAtMostOnce == times_written <= 1


(***************************************************************************)
(* C36.  validate_file.                                                    *)
(***************************************************************************)
\* the file has a key in self.record, as loaded or as set by validate_file
InValidatorRecord(f) == \E k \in validator_record : k.path = f

\* C36: a validate_file call on a file that is not in the validator's
\* record runs the rule on it and, if the rule does not raise, adds the file
\* to the record and to the record file; a call on a file that is in the
\* record changes nothing.
C36_ValidateFile ==
    [][validate_calls' # validate_calls =>
          IF ~InValidatorRecord(validated_file')
          THEN /\ rule_runs' = Append(rule_runs, validated_file')
               /\ ~rule_raised' =>
                     /\ \E k \in validator_record' : k.path = validated_file'
                     /\ validator_record_file' =
                           Append(validator_record_file, validated_file')
          ELSE UNCHANGED <<validator_record, validator_record_file, rule_runs>>]_vars

\* what the code does instead: no validate_file call runs the rule or
\* records anything
C36_NothingIsValidated ==
    [][validate_calls' # validate_calls =>
          UNCHANGED <<validator_record, validator_record_file, rule_runs>>]_vars


(***************************************************************************)
(* C37.  The stop command's report.                                        *)
(***************************************************************************)
\* C37: in the step in which the stop command reports that extraction has
\* stopped and removes the sentinel no worker is handling a log file, and
\* after the report no worker of the call begins one.
C37_StoppedIsStopped ==
    [][/\ (stop_result # "stopped" /\ stop_result' = "stopped") =>
             \A w \in Pids : wpc[w] = "idle"
       /\ (stop_result = "stopped" /\ runs' = runs) =>
             \A w \in Pids : wpc[w] = "idle" => wpc'[w] = "idle"]_vars

(***************************************************************************)
(* C38.  The temporary directory at the time of the scan.                  *)
(***************************************************************************)
\* C38: whenever a worker is about to invoke the scanner on a log file its
\* temporary directory holds no stream file, so that the streams the mirror
\* copy reads are the records of that log file.
C38_NoStaleStreams ==
    \A w \in Pids : wpc[w] = "scan" => tmp_streams[w] = <<>>

\* the consequence: the streams handed to the mirror copy are those of the file
C38_MirroredFromThatFile ==
    \A w \in Pids : wpc[w] = "start" => tmp_streams[w] = RecordsOf(wfile[w])

(***************************************************************************)
(* C39.  The indexed_ips.txt files and the persisted map.                  *)
(***************************************************************************)
\* C39: in every state (index_ips may be interrupted in any of them) every
\* index written in an indexed_ips.txt file is a key of the persisted map and
\* maps to the IP on the same line of the full_ips.txt of that directory.
C39_IndexedIpsArePersisted ==
    \A d \in Keys : \A j \in 1..Len(indexed_ips_txt[d]) :
        /\ indexed_ips_txt[d][j] \in DOMAIN indexed_ips_yaml
        /\ j <= Len(full_ips_txt[d])
        /\ indexed_ips_yaml[indexed_ips_txt[d][j]] = full_ips_txt[d][j]

====
